---- MODULE Spec2Model ----
(***************************************************************************)
(* Model of ShellyControl (src/src/sc_utility/sc_shelly_control.py): the   *)
(* device registry built from a configuration, the REST / RPC transport    *)
(* primitives with their liveness probe and retry loop, the status         *)
(* reconciler, the output command path and the simulation-file backend;    *)
(* and of the freeze-time feature of DateHelper.now()                      *)
(* (src/src/sc_utility/sc_date_helper.py).                                 *)
(*                                                                         *)
(* Representation of Python values:                                        *)
(*   str            a sequence of one-character strings (so that           *)
(*                  str.isalnum and string building can be computed)       *)
(*   None (str)     NoneName, a one-element sequence that is no character  *)
(*   None (number)  NoneNum                                                *)
(*   dict.get miss  AbsentName / AbsentNum (the key is not in the dict)    *)
(*   None/bool      the strings "None", "False", "True" (RestartRequired)  *)
(***************************************************************************)
EXTENDS Integers, Sequences, FiniteSets, TLC

VARIABLES
    phase,           \* "new" | "ready" | "failed": where the constructor ended
    settings,        \* the device_settings dict handed to __init__
    devices,         \* self.devices
    inputs,          \* self.inputs
    outputs,         \* self.outputs
    meters,          \* self.meters
    response_timeout,\* self.response_timeout
    retry_count,     \* self.retry_count
    retry_delay,     \* self.retry_delay
    ping_allowed,    \* self.ping_allowed
    files,           \* the file system: simulation file path -> its JSON document
    last,            \* observation of the call that ended last
    dh               \* DateHelper: the clock, freeze_time.json and the now() calls

vars == <<phase, settings, devices, inputs, outputs, meters, response_timeout,
          retry_count, retry_delay, ping_allowed, files, last, dh>>

-----------------------------------------------------------------------------
(* Bounds of the model *)

MaxDevices == 2
MaxRetry == 2

-----------------------------------------------------------------------------
(* Python values *)

NoneNum == -1
AbsentNum == -2
NoneName == <<"<None>">>
AbsentName == <<"<absent>">>
NoneStr == "<None>"

\* Python truthiness of a str-or-None and of a number-or-None
TruthyName(s) == s # NoneName /\ s # <<>>
TruthyNum(n) == n # NoneNum /\ n # 0

\* dict.get(key, default): the default only when the key is absent
GetName(v, default) == IF v = AbsentName THEN default ELSE v
GetNum(v, default) == IF v = AbsentNum THEN default ELSE v

DigitChar == <<"0", "1", "2", "3", "4", "5", "6", "7", "8", "9">>

RECURSIVE NumStr(_)
\* str(n) of a non-negative integer
NumStr(n) == IF n < 10 THEN <<DigitChar[n + 1]>>
             ELSE NumStr(n \div 10) \o <<DigitChar[(n % 10) + 1]>>

AlnumChars == {"A", "B", "C", "D", "I", "M", "O", "S",
               "a", "c", "e", "h", "i", "l", "n", "p", "r", "t", "u", "v", "y",
               "0", "1", "2", "3", "4", "5", "6", "7", "8", "9"}

\* str.isalnum() of one character
IsAlnum(c) == c \in AlnumChars

\* "".join(c if c.isalnum() else "_" for c in file_name)
Sanitize(s) == [i \in 1..Len(s) |-> IF IsAlnum(s[i]) THEN s[i] ELSE "_"]

DeviceNamePrefix == <<"S", "h", "e", "l", "l", "y", " ", "D", "e", "v", "i", "c", "e", " ">>
SimFilePrefix == <<"S", "h", "e", "l", "l", "y", "D", "e", "v", "i", "c", "e", "_">>
JsonSuffix == <<".", "j", "s", "o", "n">>

NamePrefix(ctype) ==
    CASE ctype = "inputs" -> <<"I", "n", "p", "u", "t", " ">>
      [] ctype = "outputs" -> <<"O", "u", "t", "p", "u", "t", " ">>
      [] ctype = "meters" -> <<"M", "e", "t", "e", "r", " ">>

-----------------------------------------------------------------------------
(* 4.1 Model library: the bundled dataset shelly_models.json, a JSON array  *)
(* of {model, protocol, inputs, outputs, meters, meters_seperate,           *)
(* temperature_monitoring}; read-only after load.                           *)

Models == <<
    [model |-> "RPC1", protocol |-> "RPC", inputs |-> 1, outputs |-> 1, meters |-> 0,
     meters_seperate |-> TRUE, temperature_monitoring |-> FALSE],
    [model |-> "RPC2", protocol |-> "RPC", inputs |-> 0, outputs |-> 2, meters |-> 0,
     meters_seperate |-> TRUE, temperature_monitoring |-> FALSE],
    [model |-> "RPC1PM", protocol |-> "RPC", inputs |-> 1, outputs |-> 1, meters |-> 1,
     meters_seperate |-> FALSE, temperature_monitoring |-> TRUE],
    [model |-> "RPC2PM", protocol |-> "RPC", inputs |-> 0, outputs |-> 2, meters |-> 2,
     meters_seperate |-> FALSE, temperature_monitoring |-> TRUE],
    [model |-> "RPCEM", protocol |-> "RPC", inputs |-> 0, outputs |-> 1, meters |-> 1,
     meters_seperate |-> TRUE, temperature_monitoring |-> FALSE],
    [model |-> "REST1", protocol |-> "REST", inputs |-> 0, outputs |-> 1, meters |-> 0,
     meters_seperate |-> TRUE, temperature_monitoring |-> FALSE],
    [model |-> "REST1PM", protocol |-> "REST", inputs |-> 0, outputs |-> 1, meters |-> 1,
     meters_seperate |-> TRUE, temperature_monitoring |-> TRUE],
    [model |-> "REST1IN", protocol |-> "REST", inputs |-> 1, outputs |-> 1, meters |-> 0,
     meters_seperate |-> TRUE, temperature_monitoring |-> FALSE],
    [model |-> "RESTC", protocol |-> "REST", inputs |-> 0, outputs |-> 1, meters |-> 1,
     meters_seperate |-> FALSE, temperature_monitoring |-> FALSE],
    [model |-> "MQTT1", protocol |-> "MQTT", inputs |-> 0, outputs |-> 1, meters |-> 0,
     meters_seperate |-> TRUE, temperature_monitoring |-> FALSE],
    [model |-> "BADPM", protocol |-> "RPC", inputs |-> 0, outputs |-> 1, meters |-> 2,
     meters_seperate |-> FALSE, temperature_monitoring |-> FALSE] >>

ModelIds == {Models[i].model : i \in 1..Len(Models)}

\* SCCommon.is_valid_hostname
IsValidHostname(h) == h \in {"h1", "h2"}

\* SCCommon.select_file_location(file_name): one path per file name
SelectFileLocation(file_name) == file_name

DefaultPort == 80
DefaultResponseTimeout == 5
DefaultRetryCount == 1
DefaultRetryDelay == 2

MinOf(S) == CHOOSE k \in S : \A j \in S : k <= j

-----------------------------------------------------------------------------
(* 4.2 Device registry.  The operators below work on a registry record r    *)
(* = [devices, inputs, outputs, meters, files, err]: the four lists of the  *)
(* object, the file system, and the exception (if any) that ended the call  *)
(* ("" = none).  A device dict is named by its position p in self.devices   *)
(* (its list index + 1).                                                    *)

EmptyRegistry(fs) ==
    [devices |-> <<>>, inputs |-> <<>>, outputs |-> <<>>, meters |-> <<>>,
     files |-> fs, err |-> ""]

Raise(r, e) == [r EXCEPT !.err = e]

\* lines 384-411: the device template of a model
DeviceOfModel(model_dict, index, device_model) ==
    [Index |-> index, Model |-> device_model, ClientName |-> NoneName,
     ID |-> NoneNum, Simulate |-> FALSE, SimulationFile |-> NoneName,
     Hostname |-> NoneStr, Port |-> DefaultPort,
     Protocol |-> model_dict.protocol, Inputs |-> model_dict.inputs,
     Outputs |-> model_dict.outputs, Meters |-> model_dict.meters,
     MetersSeperate |-> model_dict.meters_seperate,
     TemperatureMonitoring |-> model_dict.temperature_monitoring,
     Online |-> FALSE, MacAddress |-> NoneStr, Temperature |-> NoneNum,
     Uptime |-> NoneNum, RestartRequired |-> "None",
     TotalPower |-> 0, TotalEnergy |-> 0]

\* lines 412-418: the basic validation of the template
CheckedAttributes(device) ==
    IF ~device.MetersSeperate /\ device.Meters # device.Outputs
    THEN [err |-> "model-meter-mismatch"]
    ELSE [err |-> "", dev |-> device]

\* lines 373-383: the first entry of the library with the model identifier
AttributesFrom(hits, index, device_model) ==
    IF hits = {} THEN [err |-> "model-not-found"]
    ELSE CheckedAttributes(DeviceOfModel(Models[MinOf(hits)], index, device_model))

\* _get_device_attributes: [err, dev]
GetDeviceAttributes(index, device_model) ==
    AttributesFrom({i \in 1..Len(Models) : Models[i].model = device_model},
                   index, device_model)

\* _new_device_component (a meter's State is set by the caller, line 262)
NewDeviceComponent(meters_seperate, device_index, ctype) ==
    CASE ctype = "inputs" ->
           [DeviceIndex |-> device_index, ComponentIndex |-> NoneNum, ID |-> NoneNum,
            Name |-> NoneName, State |-> FALSE]
      [] ctype = "outputs" ->
           [DeviceIndex |-> device_index, ComponentIndex |-> NoneNum, ID |-> NoneNum,
            Name |-> NoneName, HasMeter |-> ~meters_seperate,
            State |-> FALSE, Temperature |-> NoneNum]
      [] ctype = "meters" ->
           [DeviceIndex |-> device_index, ComponentIndex |-> NoneNum, ID |-> NoneNum,
            Name |-> NoneName, OnOutput |-> ~meters_seperate,
            Power |-> NoneNum, Voltage |-> NoneNum, Current |-> NoneNum,
            PowerFactor |-> NoneNum, Energy |-> NoneNum, State |-> FALSE]

CountKey(dev, ctype) ==
    CASE ctype = "inputs" -> dev.Inputs
      [] ctype = "outputs" -> dev.Outputs
      [] ctype = "meters" -> dev.Meters

ComponentIndexOf_ListPosition(storage_list, component_idx) == Len(storage_list)

\* line 255: new_component["ComponentIndex"] = component_idx
ComponentIndexOf(storage_list, component_idx) == component_idx

ValidateComponent_NoIdCheck(storage_list, new_component) ==
    IF \E k \in 1..Len(storage_list) : storage_list[k].Name = new_component.Name
    THEN "component-name-not-unique"
    ELSE IF ~TruthyNum(new_component.ID) /\ ~TruthyName(new_component.Name)
    THEN "component-no-identity"
    ELSE ""

\* lines 265-280: the checks a new component passes before it is appended
\* ("" = passed, else the RuntimeError raised)
ValidateComponent(storage_list, new_component) ==
    IF \E k \in 1..Len(storage_list) : storage_list[k].Name = new_component.Name
    THEN "component-name-not-unique"
    ELSE IF \E k \in 1..Len(storage_list) : storage_list[k].ID = new_component.ID
    THEN "component-id-not-unique"
    ELSE IF ~TruthyNum(new_component.ID) /\ ~TruthyName(new_component.Name)
    THEN "component-no-identity"
    ELSE ""

\* lines 244-255: the identity of the new component; item is the configured
\* entry, or one without ID and Name when the configuration gives no list
Identify(blank, item, ctype, next_num, component_index) ==
    [blank EXCEPT !.ID = GetNum(item.ID, next_num),
                  !.Name = GetName(item.Name, NamePrefix(ctype) \o NumStr(next_num)),
                  !.ComponentIndex = component_index]

\* lines 265-283: append the component unless a check raises
AppendChecked(r, ctype, new_component, verdict) ==
    IF verdict # "" THEN Raise(r, verdict)
    ELSE [r EXCEPT ![ctype] = Append(@, new_component)]

ValidateAndAppend(r, ctype, new_component) ==
    AppendChecked(r, ctype, new_component, ValidateComponent(r[ctype], new_component))

\* One pass of the loop of _add_device_components (lines 240-283)
AddOneComponent(r, device_index, ctype, ccfg, component_idx) ==
    ValidateAndAppend(r, ctype,
        Identify(NewDeviceComponent(r.devices[device_index + 1].MetersSeperate,
                                    device_index, ctype),
                 IF ccfg.given THEN ccfg.items[component_idx + 1]
                 ELSE [ID |-> AbsentNum, Name |-> AbsentName],
                 ctype, Len(r[ctype]) + 1,
                 ComponentIndexOf(r[ctype], component_idx)))

RECURSIVE AddComponentsFrom(_, _, _, _, _)
\* the loop "for component_idx in range(expected_count)", ended by a raise
AddComponentsFrom(r, device_index, ctype, ccfg, component_idx) ==
    IF r.err # "" \/ component_idx >= CountKey(r.devices[device_index + 1], ctype)
    THEN r
    ELSE AddComponentsFrom(AddOneComponent(r, device_index, ctype, ccfg, component_idx),
                           device_index, ctype, ccfg, component_idx + 1)

\* _add_device_components
AddDeviceComponents(r, device_index, ctype, ccfg) ==
    IF r.err # "" THEN r
    ELSE IF device_index < 0 \/ device_index >= Len(r.devices)
    THEN Raise(r, "invalid-device-index")
    ELSE IF ccfg.given /\ Len(ccfg.items) # CountKey(r.devices[device_index + 1], ctype)
    THEN Raise(r, "component-count")
    ELSE AddComponentsFrom(r, device_index, ctype, ccfg, 0)

-----------------------------------------------------------------------------
(* Aggregates and the simulation-file backend *)

NumOrZero(x) == IF x # NoneNum THEN x ELSE 0

RECURSIVE SumPower_AllMeters(_, _, _)
SumPower_AllMeters(mets, index, n) ==
    IF n = 0 THEN 0
    ELSE SumPower_AllMeters(mets, index, n - 1) + NumOrZero(mets[n].Power)

RECURSIVE SumPower(_, _, _)
\* lines 925-927: total_power over the meters of the device
SumPower(mets, index, n) ==
    IF n = 0 THEN 0
    ELSE SumPower(mets, index, n - 1)
         + (IF mets[n].DeviceIndex = index THEN NumOrZero(mets[n].Power) ELSE 0)

RECURSIVE SumEnergy(_, _, _)
\* lines 925-928: total_energy over the meters of the device
SumEnergy(mets, index, n) ==
    IF n = 0 THEN 0
    ELSE SumEnergy(mets, index, n - 1)
         + (IF mets[n].DeviceIndex = index THEN NumOrZero(mets[n].Energy) ELSE 0)

\* line 937: the outputs whose temperature is counted (a truthy reading)
Counted(outs, index) ==
    {k \in 1..Len(outs) : outs[k].DeviceIndex = index /\ TruthyNum(outs[k].Temperature)}

RECURSIVE SumTemperature(_, _, _)
\* lines 936-939: average_temperature before the division
SumTemperature(outs, index, n) ==
    IF n = 0 THEN 0
    ELSE SumTemperature(outs, index, n - 1)
         + (IF n \in Counted(outs, index) THEN outs[n].Temperature ELSE 0)

\* lines 922-931
WithTotals(device, mets) ==
    IF device.Meters > 0
    THEN [device EXCEPT !.TotalPower = SumPower(mets, device.Index, Len(mets)),
                        !.TotalEnergy = SumEnergy(mets, device.Index, Len(mets))]
    ELSE device

\* lines 940-941 (the mean is kept as a whole number)
AverageInto(device, average_temperature, output_count) ==
    IF output_count > 0
    THEN [device EXCEPT !.Temperature = average_temperature \div output_count]
    ELSE device

\* lines 933-941
WithTemperature(device, outs) ==
    IF device.TemperatureMonitoring /\ device.Outputs > 0
    THEN AverageInto(device, SumTemperature(outs, device.Index, Len(outs)),
                     Cardinality(Counted(outs, device.Index)))
    ELSE device

\* _calculate_device_totals, on the device at position p
CalculateDeviceTotals(r, p) ==
    IF r.err # "" THEN r
    ELSE [r EXCEPT !.devices[p] = WithTemperature(WithTotals(@, r.meters), r.outputs)]

RECURSIVE OfDevice(_, _, _)
\* the components among the first n of the list that belong to the device
OfDevice(list, device_index, n) ==
    IF n = 0 THEN <<>>
    ELSE OfDevice(list, device_index, n - 1)
         \o (IF list[n].DeviceIndex = device_index THEN <<list[n]>> ELSE <<>>)

\* get_device_information(device, refresh_status=False): the consolidated view
GetDeviceInformation(r, device) ==
    [dev |-> device,
     Inputs |-> OfDevice(r.inputs, device.Index, Len(r.inputs)),
     Outputs |-> OfDevice(r.outputs, device.Index, Len(r.outputs)),
     Meters |-> OfDevice(r.meters, device.Index, Len(r.meters))]

\* _export_device_information_to_json, for the device at position p
ExportDeviceInformationToJson(r, p) ==
    IF ~r.devices[p].Simulate THEN r
    ELSE IF r.devices[p].SimulationFile = NoneName THEN Raise(r, "no-simulation-file")
    ELSE [r EXCEPT !.files = (r.devices[p].SimulationFile
                                :> GetDeviceInformation(r, r.devices[p])) @@ @]

\* dict.get(key, default), a record being a dict with its field names as keys
GetKey(d, key, default) == IF key \in DOMAIN d THEN d[key] ELSE default

\* line 1153
DeviceIncludedKeys == {"Online", "MACAddress", "Uptime", "RestartRequired"}

\* line 1189
MeterIncludedKeys == {"Power", "Voltage", "Current", "PowerFactor", "Energy"}

ImportedDeviceKeys_NoKeyCheck(device, imported) ==
    {key \in DOMAIN imported : key \in DeviceIncludedKeys}

\* lines 1154-1155: the keys of the file that are assigned to the device.
\* The device dict has no "MACAddress" key (its key is "MacAddress"), so the
\* MAC address is never imported.
ImportedDeviceKeys(device, imported) ==
    {key \in DOMAIN imported : key \in DeviceIncludedKeys /\ key \in DOMAIN device}

\* device[key] = value for every key in `keys`
Assigned(d, imported, keys) ==
    [key \in DOMAIN d \cup keys |-> IF key \in keys THEN imported[key] ELSE d[key]]

\* lines 1152-1156
ImportDevice(device, imported) ==
    Assigned(device, imported, ImportedDeviceKeys(device, imported))

\* lines 1160-1166: one imported input applied to every matching input
ImportInput(list, device_index, imported) ==
    [k \in 1..Len(list) |->
       IF list[k].DeviceIndex = device_index
          /\ list[k].ComponentIndex = GetKey(imported, "ComponentIndex", NoneNum)
       THEN [list[k] EXCEPT !.State = GetKey(imported, "State", @)]
       ELSE list[k]]

ImportOutput_AnyIndex(list, device_index, imported, temperature_monitoring) ==
    [k \in 1..Len(list) |->
       IF list[k].DeviceIndex = device_index
       THEN [list[k] EXCEPT !.State = GetKey(imported, "State", @)]
       ELSE list[k]]

\* lines 1170-1178: one imported output applied to every matching output
ImportOutput(list, device_index, imported, temperature_monitoring) ==
    [k \in 1..Len(list) |->
       IF list[k].DeviceIndex = device_index
          /\ list[k].ComponentIndex = GetKey(imported, "ComponentIndex", NoneNum)
       THEN [list[k] EXCEPT !.State = GetKey(imported, "State", @),
                            !.Temperature = IF temperature_monitoring
                                            THEN GetKey(imported, "Temperature", @)
                                            ELSE @]
       ELSE list[k]]

\* lines 1182-1185: the device meters an imported meter matches
MeterHits(list, device_index, imported) ==
    {k \in 1..Len(list) :
        /\ list[k].DeviceIndex = device_index
        /\ list[k].ComponentIndex = GetKey(imported, "ComponentIndex", NoneNum)}

\* lines 1182-1191: one imported meter applied to the first matching meter (break)
ImportMeter(list, imported, hits) ==
    [k \in 1..Len(list) |->
       IF k \in hits /\ \A j \in hits : k <= j
       THEN Assigned(list[k], imported, DOMAIN imported \cap MeterIncludedKeys)
       ELSE list[k]]

\* one pass of a "for imported in device_info[...]" loop
ImportOne(list, device, imported, ctype) ==
    CASE ctype = "inputs" -> ImportInput(list, device.Index, imported)
      [] ctype = "outputs" -> ImportOutput(list, device.Index, imported,
                                           device.TemperatureMonitoring)
      [] ctype = "meters" -> ImportMeter(list, imported,
                                         MeterHits(list, device.Index, imported))

RECURSIVE ImportAll(_, _, _, _, _)
\* the "for imported in device_info[...]" loops, in file order
ImportAll(list, device, imported_list, k, ctype) ==
    IF k > Len(imported_list) THEN list
    ELSE ImportAll(ImportOne(list, device, imported_list[k], ctype),
                   device, imported_list, k + 1, ctype)

\* lines 1159, 1169, 1181: a list is imported when the file has it and the
\* device has such components
ImportList(list, device, device_info, key, ctype) ==
    IF key \in DOMAIN device_info /\ CountKey(device, ctype) > 0
    THEN ImportAll(list, device, device_info[key], 1, ctype)
    ELSE list

\* lines 1146-1191: the document applied to the device and its components.
\* A document is [dev, Inputs, Outputs, Meters]: the device keys of the JSON
\* object, and its three lists when it has them.
ImportFrom(r, p, device, device_info) ==
    [r EXCEPT !.devices[p] = ImportDevice(@, device_info.dev),
              !.inputs = ImportList(@, device, device_info, "Inputs", "inputs"),
              !.outputs = ImportList(@, device, device_info, "Outputs", "outputs"),
              !.meters = ImportList(@, device, device_info, "Meters", "meters")]

\* lines 1135-1141: the simulation file does not exist
ImportMissing(r, p, create_if_no_file) ==
    IF create_if_no_file THEN ExportDeviceInformationToJson(r, p)
    ELSE Raise(r, "no-json-file")

\* _import_device_information_from_json, for the device at position p
ImportDeviceInformationFromJson(r, p, create_if_no_file) ==
    IF r.err # "" \/ ~r.devices[p].Simulate THEN r
    ELSE IF r.devices[p].SimulationFile = NoneName THEN Raise(r, "no-simulation-file")
    ELSE IF r.devices[p].SimulationFile \notin DOMAIN r.files
    THEN ImportMissing(r, p, create_if_no_file)
    ELSE CalculateDeviceTotals(
             ImportFrom(r, p, r.devices[p], r.files[r.devices[p].SimulationFile]), p)

-----------------------------------------------------------------------------
(* Registry construction *)

TruthyStr(h) == h # NoneStr /\ h # ""

\* line 167: file_name = ClientName or f"ShellyDevice_{ID}"
SimulationFileName(client_name, id) ==
    IF TruthyName(client_name) THEN client_name
    ELSE SimFilePrefix \o (IF id = NoneNum THEN <<"N", "o", "n", "e">> ELSE NumStr(id))

\* lines 166-171: the simulation file of a simulated device
WithSimulationFile(new_device) ==
    IF new_device.Simulate
    THEN [new_device EXCEPT !.SimulationFile =
              SelectFileLocation(Sanitize(SimulationFileName(new_device.ClientName,
                                                             new_device.ID))
                                 \o JsonSuffix)]
    ELSE new_device

ValidateDevice_NoHostnameCheck(devs, new_device) ==
    IF \E k \in 1..Len(devs) : devs[k].ClientName = new_device.ClientName
    THEN "device-name-not-unique"
    ELSE IF \E k \in 1..Len(devs) : devs[k].ID = new_device.ID
    THEN "device-id-not-unique"
    ELSE IF ~TruthyNum(new_device.ID) /\ ~TruthyName(new_device.ClientName)
    THEN "device-no-identity"
    ELSE ""

\* lines 138-163: the checks a new device passes before it is appended
\* ("" = passed, else the RuntimeError raised)
ValidateDevice(devs, new_device) ==
    IF ~new_device.Simulate /\ ~TruthyStr(new_device.Hostname) THEN "no-hostname"
    ELSE IF TruthyStr(new_device.Hostname) /\ ~IsValidHostname(new_device.Hostname)
    THEN "invalid-hostname"
    ELSE IF \E k \in 1..Len(devs) : devs[k].ClientName = new_device.ClientName
    THEN "device-name-not-unique"
    ELSE IF \E k \in 1..Len(devs) : devs[k].ID = new_device.ID
    THEN "device-id-not-unique"
    ELSE IF ~TruthyNum(new_device.ID) /\ ~TruthyName(new_device.ClientName)
    THEN "device-no-identity"
    ELSE ""

\* lines 130-136: the template filled from the configuration entry
Configured(new_device, device_config, device_index) ==
    [new_device EXCEPT
        !.Index = device_index,
        !.ClientName = GetName(device_config.Name,
                               DeviceNamePrefix \o NumStr(device_index + 1)),
        !.ID = GetNum(device_config.ID, device_index + 1),
        !.Simulate = device_config.Simulate,
        !.Hostname = device_config.Hostname,
        !.Port = DefaultPort]

\* lines 177-179: inputs, then outputs, then meters
AddAllComponents(r, device_index, device_config) ==
    AddDeviceComponents(
        AddDeviceComponents(
            AddDeviceComponents(r, device_index, "inputs", device_config.Inputs),
            device_index, "outputs", device_config.Outputs),
        device_index, "meters", device_config.Meters)

\* lines 174-182: append, add the components, read or create the simulation file
AppendDevice(r, new_device, device_config, verdict) ==
    IF verdict # "" THEN Raise(r, verdict)
    ELSE ImportDeviceInformationFromJson(
             AddAllComponents([r EXCEPT !.devices = Append(@, WithSimulationFile(new_device))],
                              Len(r.devices), device_config),
             Len(r.devices) + 1, TRUE)

\* lines 138-182
ValidateAndAdd(r, new_device, device_config) ==
    AppendDevice(r, new_device, device_config, ValidateDevice(r.devices, new_device))

\* lines 124-136
AddConfigured(r, attrs, device_config) ==
    IF attrs.err # "" THEN Raise(r, attrs.err)
    ELSE ValidateAndAdd(r, Configured(attrs.dev, device_config, Len(r.devices)),
                        device_config)

\* _add_device
AddDevice(r, device_config) ==
    AddConfigured(r, GetDeviceAttributes(Len(r.devices), device_config.Model),
                  device_config)

RECURSIVE AddDevicesFrom(_, _, _)
\* lines 105-109: the loop over settings["Devices"], ended by the first RuntimeError
AddDevicesFrom(r, device_list, k) ==
    IF r.err # "" \/ k > Len(device_list) THEN r
    ELSE AddDevicesFrom(AddDevice(r, device_list[k]), device_list, k + 1)

\* _add_devices_from_config: the lists are cleared, then rebuilt
AddDevicesFromConfig(fs, cfg) == AddDevicesFrom(EmptyRegistry(fs), cfg.Devices, 1)

-----------------------------------------------------------------------------
(* Lookup *)

\* An identity handed to a public method: a record already resolved (kind
\* "dict", the position i of the device or component), a number (kind "id"),
\* a string (kind "name") or None (kind "none").
IdDict(i) == [kind |-> "dict", i |-> i, n |-> NoneNum, s |-> NoneName]
IdNum(n) == [kind |-> IF n = NoneNum THEN "none" ELSE "id", i |-> 0, n |-> n, s |-> NoneName]
IdName(s) == [kind |-> IF s = NoneName THEN "none" ELSE "name", i |-> 0, n |-> NoneNum, s |-> s]
IdNone == [kind |-> "none", i |-> 0, n |-> NoneNum, s |-> NoneName]

\* device["ID"] == identity or device["ClientName"] == identity
CarriesDevice(device, identity) ==
    \/ identity.kind = "id" /\ device.ID = identity.n
    \/ identity.kind = "name" /\ device.ClientName = identity.s
    \/ identity.kind = "none" /\ (device.ID = NoneNum \/ device.ClientName = NoneName)

\* component["ID"] == identity or component["Name"] == identity
CarriesComponent(component, identity) ==
    \/ identity.kind = "id" /\ component.ID = identity.n
    \/ identity.kind = "name" /\ component.Name = identity.s
    \/ identity.kind = "none" /\ (component.ID = NoneNum \/ component.Name = NoneName)

\* the first of the hits, 0 when there is none
FirstOf(hits) == IF hits = {} THEN 0 ELSE MinOf(hits)

GetDevice_FirstDevice(devs, identity) ==
    IF identity.kind = "dict" THEN identity.i
    ELSE FirstOf({k \in 1..Len(devs) : \E j \in 1..Len(devs) : CarriesDevice(devs[j], identity)})

\* get_device: the position of the device (0 = not found, a RuntimeError)
GetDevice(devs, identity) ==
    IF identity.kind = "dict" THEN identity.i
    ELSE FirstOf({k \in 1..Len(devs) : CarriesDevice(devs[k], identity)})

\* get_device_component, on the list selected by the component type
GetDeviceComponent(list, identity) ==
    IF identity.kind = "dict" THEN identity.i
    ELSE FirstOf({k \in 1..Len(list) : CarriesComponent(list[k], identity)})

-----------------------------------------------------------------------------
(* Liveness probe *)

PingedSet_IgnorePingAllowed(devs, allowed, selected) ==
    {k \in 1..Len(devs) :
        /\ ~devs[k].Simulate
        /\ (selected = 0 \/ devs[selected].Index = k - 1)}

\* lines 492-496: the hosts a call pings, given the device it selected
\* (selected = 0: every device)
PingedSet(devs, allowed, selected) ==
    {k \in 1..Len(devs) :
        /\ ~(devs[k].Simulate \/ ~allowed)
        /\ (selected = 0 \/ devs[selected].Index = k - 1)}

\* lines 492-502: the loop over the devices
ProbeDevices(devs, allowed, ping, pinged) ==
    [err |-> "",
     devices |-> [k \in 1..Len(devs) |->
                    IF devs[k].Simulate \/ ~allowed THEN [devs[k] EXCEPT !.Online = TRUE]
                    ELSE IF k \in pinged THEN [devs[k] EXCEPT !.Online = ping[k]]
                    ELSE devs[k]],
     ret |-> ~(\E k \in pinged : ~ping[k]),
     pinged |-> pinged]

\* lines 488-490: the selected device, or the RuntimeError of get_device
ProbeSelected(devs, allowed, identity, ping, selected) ==
    IF identity.kind # "none" /\ selected = 0
    THEN [err |-> "device-not-found", devices |-> devs, ret |-> FALSE, pinged |-> {}]
    ELSE ProbeDevices(devs, allowed, ping, PingedSet(devs, allowed, selected))

\* is_device_online(device_identity).  ping[k] is what SCCommon.ping_host answers
\* for the host of the device at position k during this call.
\* Result: [err, devices, ret, pinged] (pinged: the positions probed).
IsDeviceOnline(devs, allowed, identity, ping) ==
    ProbeSelected(devs, allowed, identity, ping,
                  IF identity.kind = "none" THEN 0 ELSE GetDevice(devs, identity))

-----------------------------------------------------------------------------
(* 4.3 Transport layer.                                                     *)
(* What the network answers to one request is a script: the first           *)
(* `timeouts` HTTP attempts time out and every later attempt is answered    *)
(* by `then`:                                                               *)
(*   "ok"           HTTP 200, a non-empty JSON body (RPC: with a result)    *)
(*   "timeout"      requests.exceptions.Timeout                             *)
(*   "connection"   requests.exceptions.ConnectionError                     *)
(*   "http_error"   a 4xx/5xx status other than 401                         *)
(*   "unauthorized" HTTP 401                                                *)
(*   "status"       a status that is neither 200 nor 4xx/5xx                *)
(*   "empty"        HTTP 200 with an empty body (RPC: no result, no error)  *)
(*   "rpc_error"    HTTP 200 with error.message and no result               *)
(* The settings of the object a request reads are g = [allowed, limit,      *)
(* delay]: ping_allowed, retry_count and retry_delay.                       *)

AttemptOutcome(script, n) == IF n <= script.timeouts THEN "timeout" ELSE script.then

\* line 636 / 704: response.raise_for_status() raises requests' HTTPError, a
\* RequestException, for every 4xx/5xx status, 401 included
RaisesForStatus(outcome) == outcome \in {"http_error", "unauthorized"}

\* lines 636-643 (REST) and 704-722 (RPC): what one answered attempt raises
\* ("" = the else branch, return True with the data), in the order of the
\* code: the connection error, raise_for_status(), the 401 test of the RPC
\* primitive (705-707), the test for a status other than 200, the empty
\* result and the error message of the RPC response.
AnswerError(protocol, outcome) ==
    IF outcome = "ok" THEN ""
    ELSE IF outcome = "connection" THEN "connection-error"
    ELSE IF RaisesForStatus(outcome) THEN "request-exception"
    ELSE IF protocol = "RPC" /\ outcome = "unauthorized" THEN "unauthorised"
    ELSE IF outcome = "status" THEN "status-code"
    ELSE IF outcome = "empty" THEN "empty-result"
    ELSE IF protocol = "RPC" THEN "rpc-error" ELSE ""

Answered_SleepsAfterFailure(verdict, attempts, sleeps) ==
    IF verdict # ""
    THEN [res |-> "raised", err |-> verdict, attempts |-> attempts, sleeps |-> sleeps + 1]
    ELSE [res |-> "ok", err |-> "", attempts |-> attempts, sleeps |-> sleeps]

\* lines 645-657 / 723-735: how an attempt that did not time out ends the loop
Answered(verdict, attempts, sleeps) ==
    IF verdict # ""
    THEN [res |-> "raised", err |-> verdict, attempts |-> attempts, sleeps |-> sleeps]
    ELSE [res |-> "ok", err |-> "", attempts |-> attempts, sleeps |-> sleeps]

RECURSIVE RetryLoop(_, _, _, _, _, _)
\* the while loop of _rest_request (629-664) and _rpc_request (696-742):
\* [res, err, attempts, sleeps]
RetryLoop(protocol, limit, script, retry, attempts, sleeps) ==
    IF ~(retry <= limit)
    THEN [res |-> "exhausted", err |-> "", attempts |-> attempts, sleeps |-> sleeps]
    ELSE IF AttemptOutcome(script, attempts + 1) = "timeout"
    THEN IF retry + 1 > limit
         THEN [res |-> "raised", err |-> "timeout", attempts |-> attempts + 1,
               sleeps |-> sleeps]
         ELSE RetryLoop(protocol, limit, script, retry + 1, attempts + 1, sleeps + 1)
    ELSE Answered(AnswerError(protocol, AttemptOutcome(script, attempts + 1)),
                  attempts + 1, sleeps)

\* the identity the primitive hands to is_device_online: the REST primitive
\* passes device["ID"] (line 619), the RPC primitive the device itself (686)
ProbeIdentity(devs, p, protocol) ==
    IF protocol = "REST" THEN IdNum(devs[p].ID) ELSE IdDict(p)

\* the positions a request to the device at position p pings
PingedBy(devs, allowed, p, protocol) ==
    PingedSet(devs, allowed,
              IF ProbeIdentity(devs, p, protocol).kind = "none" THEN 0
              ELSE GetDevice(devs, ProbeIdentity(devs, p, protocol)))

Script(k, t) == [timeouts |-> k, then |-> t]

\* no HTTP attempt was made
NoScript == [timeouts |-> 0, then |-> "unused"]

\* what a request did when the probe ended it: "offline" is (False, {})
Unsent(o, protocol, method) ==
    [protocol |-> protocol, method |-> method, online |-> o.ret,
     pinged |-> Cardinality(o.pinged), script |-> NoScript, attempts |-> 0,
     sleeps |-> 0, slept |-> 0,
     res |-> IF o.err # "" THEN "raised" ELSE "offline", err |-> o.err]

\* what a request did when the device answered the probe
Sent(o, l, delay, protocol, method, script) ==
    [protocol |-> protocol, method |-> method, online |-> o.ret,
     pinged |-> Cardinality(o.pinged), script |-> script, attempts |-> l.attempts,
     sleeps |-> l.sleeps, slept |-> l.sleeps * delay, res |-> l.res, err |-> l.err]

Probed_ExtraRetry(o, g, protocol, method, script) ==
    [devices |-> o.devices,
     obs |-> IF o.err # "" \/ ~o.ret THEN Unsent(o, protocol, method)
             ELSE Sent(o, RetryLoop(protocol, g.limit + 1, script, 0, 0, 0), g.delay,
                       protocol, method, script)]

Probed_NoEarlyReturn(o, g, protocol, method, script) ==
    [devices |-> o.devices,
     obs |-> IF o.err # "" THEN Unsent(o, protocol, method)
             ELSE Sent(o, RetryLoop(protocol, g.limit,
                                    IF o.ret THEN script ELSE Script(0, "ok"), 0, 0, 0),
                       g.delay, protocol, method, script)]

\* lines 619-621 / 686-688, then the retry loop
Probed(o, g, protocol, method, script) ==
    [devices |-> o.devices,
     obs |-> IF o.err # "" \/ ~o.ret THEN Unsent(o, protocol, method)
             ELSE Sent(o, RetryLoop(protocol, g.limit, script, 0, 0, 0), g.delay,
                       protocol, method, script)]

\* _rest_request / _rpc_request to the device at position p.
\* env = [ping, script].  Result: the device list after the probe and what
\* the request did; res is
\*   "ok" (True, data) | "offline" (False, {}) | "raised" | "exhausted"
Request(devs, g, p, protocol, method, env) ==
    Probed(IsDeviceOnline(devs, g.allowed, ProbeIdentity(devs, p, protocol), env.ping),
           g, protocol, method, env.script)

\* one more request of a call: t = [devices, reqs, err]
Step(t, q) ==
    [devices |-> q.devices, reqs |-> Append(t.reqs, q.obs),
     err |-> IF q.obs.res = "raised" THEN q.obs.err ELSE ""]

RECURSIVE RunRequests(_, _, _, _, _, _, _)
\* the requests of one call, in order, ended by the first that raises
RunRequests(t, g, p, protocol, methods, envs, k) ==
    IF t.err # "" \/ k > Len(methods) THEN t
    ELSE RunRequests(Step(t, Request(t.devices, g, p, protocol, methods[k], envs[k])),
                     g, p, protocol, methods, envs, k + 1)

Answers(protocol) ==
    IF protocol = "REST"
    THEN {"ok", "connection", "http_error", "status", "empty"}
    ELSE {"ok", "connection", "http_error", "unauthorized", "status", "empty", "rpc_error"}

\* every script that differs within limit + 1 attempts
Scripts(protocol, limit) ==
    {Script(k, t) : k \in 0..limit, t \in Answers(protocol)}
    \cup {Script(limit + 1, "timeout")}

\* what the environment answers to one request: the pings of the probe and,
\* when they all succeed, a script
RequestEnvs(pinged, scripts) ==
    UNION {{[ping |-> f, script |-> sc] :
               sc \in (IF \A k \in pinged : f[k] THEN scripts ELSE {NoScript})} :
           f \in [pinged -> BOOLEAN]}

-----------------------------------------------------------------------------
(* 4.4 Status reconciler.                                                   *)
(* A status payload is a record of the keys the reconciler reads; a key the *)
(* payload lacks is "absent" (a flag) or AbsentNum / NoneStr (a reading).   *)
(*   RPC:  [sys: [mac, uptime, restart_required],                           *)
(*          input: <<state>>, switch: <<[output, tC, apower, voltage,       *)
(*          current, pf, total]>>], both indexed by component index + 1; a  *)
(*          section the payload lacks is a position beyond the sequence     *)
(*   REST: [mac, uptime, has_update, temperature, relays: <<ison>>,         *)
(*          meters: <<[power, voltage, total]>>, emeters: likewise]         *)

\* dict.get(key, False) of a flag
FlagOf(v) == v = "True"

\* dict.get(key, None) of a reading
ReadingOf(v) == IF v = AbsentNum THEN NoneNum ELSE v

NoSwitch ==
    [output |-> "absent", tC |-> AbsentNum, apower |-> AbsentNum, voltage |-> AbsentNum,
     current |-> AbsentNum, pf |-> AbsentNum, total |-> AbsentNum]

\* result_data.get(f"switch:{component_index}", {})
SwitchOf(payload, component_index) ==
    IF component_index + 1 \in DOMAIN payload.switch
    THEN payload.switch[component_index + 1] ELSE NoSwitch

\* result_data.get(f"input:{component_index}", {}).get("state", False)
InputStateOf(payload, component_index) ==
    component_index + 1 \in DOMAIN payload.input
    /\ FlagOf(payload.input[component_index + 1])

\* lines 834-836
RpcDevice(device, sys) ==
    [device EXCEPT !.MacAddress = sys.mac, !.Uptime = ReadingOf(sys.uptime),
                   !.RestartRequired = IF FlagOf(sys.restart_required)
                                       THEN "True" ELSE "False"]

\* lines 839-842
RpcInputs(list, device, payload) ==
    [k \in 1..Len(list) |->
       IF list[k].DeviceIndex = device.Index
       THEN [list[k] EXCEPT !.State = InputStateOf(payload, list[k].ComponentIndex)]
       ELSE list[k]]

\* lines 846-848: one output set from its switch section
RpcOutput(output, device, switch) ==
    [output EXCEPT !.State = FlagOf(switch.output),
                   !.Temperature = IF device.TemperatureMonitoring
                                   THEN ReadingOf(switch.tC) ELSE @]

\* lines 843-848
RpcOutputs(list, device, payload) ==
    [k \in 1..Len(list) |->
       IF list[k].DeviceIndex = device.Index
       THEN RpcOutput(list[k], device, SwitchOf(payload, list[k].ComponentIndex))
       ELSE list[k]]

\* lines 857-861: a separate meter set from the EM1 / EM1Data answers
\* (result_data, the Shelly.GetStatus answer, has no "params")
SeparateMeter(meter, emdata) ==
    [meter EXCEPT !.Power = NoneNum, !.Voltage = NoneNum, !.Current = NoneNum,
                  !.PowerFactor = NoneNum,
                  !.Energy = ReadingOf(emdata[meter.ComponentIndex + 1])]

\* lines 864-868: a meter on the switch set from its switch section
SwitchMeter(meter, switch) ==
    [meter EXCEPT !.Power = ReadingOf(switch.apower),
                  !.Voltage = ReadingOf(switch.voltage),
                  !.Current = ReadingOf(switch.current),
                  !.PowerFactor = ReadingOf(switch.pf),
                  !.Energy = ReadingOf(switch.total)]

\* lines 849-868, when no meter raises
RpcMeters(list, device, payload, emdata) ==
    [k \in 1..Len(list) |->
       IF list[k].DeviceIndex # device.Index THEN list[k]
       ELSE IF device.MetersSeperate THEN SeparateMeter(list[k], emdata)
       ELSE SwitchMeter(list[k], SwitchOf(payload, list[k].ComponentIndex))]

\* line 853: the check the first separate meter of the device makes
\* (em, emdata: the answers collected by lines 794-795 and 802-803)
MeterCallFailed(r, device, em, emdata) ==
    /\ \E k \in 1..Len(r.meters) : r.meters[k].DeviceIndex = device.Index
    /\ device.MetersSeperate
    /\ (Len(em) <= device.Meters \/ Len(emdata) <= device.Meters)

\* lines 849-868
RpcMetersOrRaise(r, device, payload, em, emdata) ==
    IF MeterCallFailed(r, device, em, emdata) THEN Raise(r, "meter-call-failed")
    ELSE [r EXCEPT !.meters = RpcMeters(@, device, payload, emdata)]

\* lines 832-868: the RPC branch of the reconciler
ReconcileRpc(r, p, device, payload, em, emdata) ==
    RpcMetersOrRaise([r EXCEPT !.devices[p] = RpcDevice(@, payload.sys),
                               !.inputs = RpcInputs(@, device, payload),
                               !.outputs = RpcOutputs(@, device, payload)],
                     device, payload, em, emdata)

\* lines 871-875
RestDevice(device, payload) ==
    [device EXCEPT !.MacAddress = payload.mac, !.Uptime = ReadingOf(payload.uptime),
                   !.RestartRequired = IF FlagOf(payload.has_update)
                                       THEN "True" ELSE "False",
                   !.Temperature = IF device.TemperatureMonitoring
                                   THEN ReadingOf(payload.temperature) ELSE @]

\* the first component of the device whose index is not in a payload list of
\* n entries (0 = none): there list[component_index] is an IndexError
FirstMissing(list, device, n) ==
    FirstOf({k \in 1..Len(list) :
                list[k].DeviceIndex = device.Index /\ list[k].ComponentIndex >= n})

\* lines 882-887: the outputs before the one that raises, if any
RestOutputs(list, device, relays, stop) ==
    [k \in 1..Len(list) |->
       IF list[k].DeviceIndex = device.Index /\ (stop = 0 \/ k < stop)
       THEN [list[k] EXCEPT !.State = FlagOf(relays[list[k].ComponentIndex + 1]),
                            !.Temperature = IF device.TemperatureMonitoring
                                            THEN device.Temperature ELSE @]
       ELSE list[k]]

\* lines 894-900: one meter set from its entry of the payload list
RestMeter(meter, entry) ==
    [meter EXCEPT !.Power = ReadingOf(entry.power),
                  !.Voltage = ReadingOf(entry.voltage),
                  !.Energy = ReadingOf(entry.total),
                  !.Current = NoneNum, !.PowerFactor = NoneNum]

\* lines 888-900: the meters before the one that raises, if any
RestMeters(list, device, meter_list, stop) ==
    [k \in 1..Len(list) |->
       IF list[k].DeviceIndex = device.Index /\ (stop = 0 \/ k < stop)
       THEN RestMeter(list[k], meter_list[list[k].ComponentIndex + 1])
       ELSE list[k]]

\* line 892: meter_key
MeterList(payload) == IF Len(payload.emeters) > 0 THEN payload.emeters ELSE payload.meters

RestOutputsStep(r, device, relays, stop) ==
    [r EXCEPT !.outputs = RestOutputs(@, device, relays, stop),
              !.err = IF stop # 0 THEN "index-error" ELSE ""]

RestMetersStep(r, device, meter_list, stop) ==
    IF r.err # "" THEN r
    ELSE [r EXCEPT !.meters = RestMeters(@, device, meter_list, stop),
                   !.err = IF stop # 0 THEN "index-error" ELSE ""]

\* lines 878-900.  Line 881 calls .get on the list result_data.get("inputs",
\* []): an AttributeError for the first input of the device
RestComponents(r, device, payload) ==
    IF \E k \in 1..Len(r.inputs) : r.inputs[k].DeviceIndex = device.Index
    THEN Raise(r, "extract-error")
    ELSE RestMetersStep(
             RestOutputsStep(r, device, payload.relays,
                             FirstMissing(r.outputs, device, Len(payload.relays))),
             device, MeterList(payload),
             FirstMissing(r.meters, device, Len(MeterList(payload))))

\* lines 870-900: the REST branch of the reconciler
RestUpdated(r, p, payload) == RestComponents(r, r.devices[p], payload)

ReconcileRest(r, p, payload) ==
    RestUpdated([r EXCEPT !.devices[p] = RestDevice(@, payload)], p, payload)

RECURSIVE MeterMethods(_)
\* lines 788-803: the two calls made for each meter of the device
MeterMethods(n) ==
    IF n = 0 THEN <<>>
    ELSE MeterMethods(n - 1) \o <<"EM1.GetStatus", "EM1Data.GetStatus">>

\* lines 777-807: the requests of a status call, in order
StatusMethods(device) ==
    CASE device.Protocol = "RPC" ->
           <<"Shelly.GetStatus">>
           \o (IF device.MetersSeperate THEN MeterMethods(device.Meters) ELSE <<>>)
      [] device.Protocol = "REST" -> <<"status">>
      [] OTHER -> <<>>

RECURSIVE Collected(_, _, _, _)
\* lines 794-795 / 802-803: the answers appended for the calls that returned True
Collected(reqs, method, answers, n) ==
    IF n = 0 THEN <<>>
    ELSE Collected(reqs, method, answers, n - 1)
         \o (IF reqs[n].method = method /\ reqs[n].res = "ok"
             THEN <<answers[n]>> ELSE <<>>)

\* lines 831-904: the reconciler
Reconcile(r, p, device, env, reqs) ==
    IF device.Protocol = "RPC"
    THEN ReconcileRpc(r, p, device, env.payload,
                      Collected(reqs, "EM1.GetStatus", env.answers, Len(reqs)),
                      Collected(reqs, "EM1Data.GetStatus", env.answers, Len(reqs)))
    ELSE ReconcileRest(r, p, env.payload)

\* how a status call ends: s = [r, ret, reqs], ret = <<>> when it raised
Ended(r, ret, reqs) == [r |-> r, ret |-> IF r.err # "" THEN <<>> ELSE ret, reqs |-> reqs]

Requested_NoCombinedCheck(r, p, device, env, t) ==
    IF t.err # "" THEN Ended(Raise(r, t.err), <<>>, t.reqs)
    ELSE IF t.reqs[1].res # "ok" THEN Ended(r, <<FALSE>>, t.reqs)
    ELSE Ended(CalculateDeviceTotals(Reconcile(r, p, device, env, t.reqs), p),
               <<TRUE>>, t.reqs)

\* lines 776-911, after the requests
Requested(r, p, device, env, t) ==
    IF t.err # "" THEN Ended(Raise(r, t.err), <<>>, t.reqs)
    ELSE IF device.Protocol = "REST" /\ ~device.MetersSeperate
    THEN Ended(Raise(r, "rest-combined-meters"), <<>>, t.reqs)
    ELSE IF t.reqs[1].res # "ok" THEN Ended(r, <<FALSE>>, t.reqs)
    ELSE Ended(CalculateDeviceTotals(Reconcile(r, p, device, env, t.reqs), p),
               <<TRUE>>, t.reqs)

\* lines 776-823: the requests of the live branch
LiveStatus(r, g, p, device, env, t) ==
    Requested([r EXCEPT !.devices = t.devices], p, device, env, t)

\* get_device_status of the device at position p.
\* env = [requests, payload, answers]: what the network answers to each
\* request of the call, the status payload, and the EM1 / EM1Data answers.
GetDeviceStatus(r, g, p, env) ==
    IF r.devices[p].Simulate
    THEN Ended(ImportDeviceInformationFromJson(r, p, TRUE), <<TRUE>>, <<>>)
    ELSE IF r.devices[p].Protocol \notin {"RPC", "REST"}
    THEN Ended(Raise(r, "unsupported-protocol"), <<>>, <<>>)
    ELSE LiveStatus(r, g, p, r.devices[p], env,
                    RunRequests([devices |-> r.devices, reqs |-> <<>>, err |-> ""],
                                g, p, r.devices[p].Protocol,
                                StatusMethods(r.devices[p]), env.requests, 1))

-----------------------------------------------------------------------------
(* Output command path *)

\* lines 986-996: the request that changes the output
MutateMethod(protocol) == IF protocol = "RPC" THEN "Switch.Set" ELSE "relay"

Committed_ReportsChange(r, o, p, current_state, new_state, reqs) ==
    Ended(ExportDeviceInformationToJson([r EXCEPT !.outputs[o].State = new_state], p),
          <<TRUE, TRUE>>, reqs)

\* lines 1016-1027: the new state is stored, exported in simulation mode,
\* and compared with the state noted at line 974
Committed(r, o, p, current_state, new_state, reqs) ==
    Ended(ExportDeviceInformationToJson([r EXCEPT !.outputs[o].State = new_state], p),
          <<TRUE, new_state # current_state>>, reqs)

Mutated_AssignsBeforeRequest(r, q, o, p, current_state, new_state, reqs) ==
    IF q.obs.res = "raised"
    THEN Ended(Raise([r EXCEPT !.outputs[o].State = new_state], q.obs.err), <<>>, reqs)
    ELSE IF q.obs.res # "ok"
    THEN Ended([r EXCEPT !.outputs[o].State = new_state], <<FALSE, FALSE>>, reqs)
    ELSE Committed(r, o, p, current_state, new_state, reqs)

\* lines 992-1012: after the request that changes the output
Mutated(r, q, o, p, current_state, new_state, reqs) ==
    IF q.obs.res = "raised" THEN Ended(Raise(r, q.obs.err), <<>>, reqs)
    ELSE IF q.obs.res # "ok" THEN Ended(r, <<FALSE, FALSE>>, reqs)
    ELSE Committed(r, o, p, current_state, new_state, reqs)

\* lines 984-1012
Mutate(s, q, o, p, current_state, new_state) ==
    Mutated([s.r EXCEPT !.devices = q.devices], q, o, p, current_state, new_state,
            Append(s.reqs, q.obs))

Refreshed_CommitsOffline(s, g, o, p, current_state, new_state, env) ==
    IF s.r.err # "" THEN s
    ELSE Committed(s.r, o, p, current_state, new_state, s.reqs)

\* lines 980-1012: after the status call
Refreshed(s, g, o, p, current_state, new_state, env) ==
    IF s.r.err # "" THEN s
    ELSE IF s.ret # <<TRUE>> THEN [s EXCEPT !.ret = <<FALSE, FALSE>>]
    ELSE Mutate(s, Request(s.r.devices, g, p, s.r.devices[p].Protocol,
                           MutateMethod(s.r.devices[p].Protocol), env),
                o, p, current_state, new_state)

\* lines 971-1027, for the output at position o (0 = not found)
ChangeResolved(r, g, o, p, new_state, env) ==
    IF r.devices[p].Simulate
    THEN Committed(r, o, p, r.outputs[o].State, new_state, <<>>)
    ELSE Refreshed(GetDeviceStatus(r, g, p, env.status), g, o, p,
                   r.outputs[o].State, new_state, env.mutate)

\* lines 960-968
ChangeFound(r, g, o, new_state, env) ==
    IF o = 0 THEN Ended(Raise(r, "component-not-found"), <<>>, <<>>)
    ELSE ChangeResolved(r, g, o, r.outputs[o].DeviceIndex + 1, new_state, env)

\* change_output(output_identity, new_state); env = [status, mutate]
ChangeOutput(r, g, identity, new_state, env) ==
    ChangeFound(r, g, GetDeviceComponent(r.outputs, identity), new_state, env)

-----------------------------------------------------------------------------
(* Observation of the last call: which operation, on what (dev: the device  *)
(* position, out: the output position, arg: the new state), how it ended    *)
(* (exc: "" or the exception kind, why: which raise), what it returned      *)
(* (ret: <<>> nothing, <<b>> a bool, <<a, b>> a pair), the transport        *)
(* requests it made (reqs), how many hosts it pinged outside of them, and   *)
(* (prev) the output and state of the call before it when that call was a   *)
(* change_output that returned (True, _).  It also keeps the identity and   *)
(* the component type a lookup was asked for (ident, ctype), the status     *)
(* payload the device answered with (payload), and the severities the call  *)
(* handed to logger.log_message (log).                                      *)

NoPrev == [out |-> 0, arg |-> FALSE]

NoPayload == [none |-> TRUE]

NoCall == [op |-> "none", dev |-> 0, out |-> 0, arg |-> FALSE, exc |-> "", why |-> "",
           ret |-> <<>>, reqs |-> <<>>, pinged |-> 0, prev |-> NoPrev,
           ident |-> IdNone, ctype |-> "", payload |-> NoPayload, log |-> {}]

ExcOf(err) ==
    CASE err = "" -> ""
      [] err = "timeout" -> "TimeoutError"
      [] err = "index-error" -> "IndexError"
      [] OTHER -> "RuntimeError"

PrevOf(call) ==
    IF call.op = "change_output" /\ Len(call.ret) = 2 /\ call.ret[1]
    THEN [out |-> call.out, arg |-> call.arg]
    ELSE NoPrev

\* the object as the operators see it
Registry ==
    [devices |-> devices, inputs |-> inputs, outputs |-> outputs, meters |-> meters,
     files |-> files, err |-> ""]

Globals == [allowed |-> ping_allowed, limit |-> retry_count, delay |-> retry_delay]

-----------------------------------------------------------------------------
(* The constructor *)

GetBool(v, default) == IF v = "absent" THEN default ELSE v = "True"

\* line 50: self.is_device_online()
Probing(o) ==
    /\ phase' = "ready"
    /\ devices' = o.devices
    /\ last' = [NoCall EXCEPT !.op = "construct", !.pinged = Cardinality(o.pinged)]

\* lines 43-55, after _add_devices_from_config
Initialised(r, allowed) ==
    /\ ping_allowed' = allowed
    /\ inputs' = r.inputs
    /\ outputs' = r.outputs
    /\ meters' = r.meters
    /\ files' = r.files
    /\ \/ /\ r.err # ""
          /\ phase' = "failed"
          /\ devices' = r.devices
          /\ last' = [NoCall EXCEPT !.op = "construct", !.exc = ExcOf(r.err),
                                    !.why = r.err]
       \/ /\ r.err = ""
          /\ \E ping \in [PingedSet(r.devices, allowed, 0) -> BOOLEAN] :
                Probing(IsDeviceOnline(r.devices, allowed, IdNone, ping))

\* __init__(logger, device_settings): lines 27-55
Construct ==
    /\ phase = "new"
    /\ response_timeout' = GetNum(settings.ResponseTimeout, DefaultResponseTimeout)
    /\ retry_count' = GetNum(settings.RetryCount, DefaultRetryCount)
    /\ retry_delay' = GetNum(settings.RetryDelay, DefaultRetryDelay)
    /\ Initialised(AddDevicesFromConfig(files, settings),
                   GetBool(settings.PingAllowed, TRUE))
    /\ UNCHANGED <<settings, dh>>

-----------------------------------------------------------------------------
(* Calls on a constructed object *)

Ready == phase = "ready"

\* the positions is_device_online(identity) pings
PingedFor(devs, allowed, identity) ==
    PingedSet(devs, allowed, IF identity.kind = "none" THEN 0 ELSE GetDevice(devs, identity))

Probe(identity, o) ==
    /\ devices' = o.devices
    /\ last' = [NoCall EXCEPT !.op = "is_device_online", !.dev = identity.i,
                              !.ret = <<o.ret>>, !.pinged = Cardinality(o.pinged),
                              !.prev = PrevOf(last),
                              !.log = IF o.pinged # {} THEN {"debug"} ELSE {}]

\* is_device_online(device_identity) called by the client
IsDeviceOnlineCall ==
    /\ Ready
    /\ \E identity \in {IdNone} \cup {IdDict(k) : k \in 1..Len(devices)} :
       \E ping \in [PingedFor(devices, ping_allowed, identity) -> BOOLEAN] :
          Probe(identity, IsDeviceOnline(devices, ping_allowed, identity, ping))
    /\ UNCHANGED <<dh, phase, settings, inputs, outputs, meters, response_timeout,
                   retry_count, retry_delay, ping_allowed, files>>

\* the severities one transport request logs: "debug" at lines 616 / 683 (and
\* 502, 661 / 739), "warning" at 620 / 687 when the probe finds the device offline
RequestLog(obs) == {"debug"} \cup (IF obs.res = "offline" THEN {"warning"} ELSE {})

RequestLogs(reqs) == UNION {RequestLog(reqs[k]) : k \in 1..Len(reqs)}

Transported(op, p, q) ==
    /\ devices' = q.devices
    /\ last' = [NoCall EXCEPT
                  !.op = op, !.dev = p, !.exc = ExcOf(q.obs.err), !.why = q.obs.err,
                  !.ret = IF q.obs.res = "raised" THEN <<>> ELSE <<q.obs.res = "ok">>,
                  !.reqs = <<q.obs>>, !.prev = PrevOf(last), !.log = RequestLog(q.obs)]

\* one transport request on its own: op(device, ...) for op = _rest_request or
\* _rpc_request, whatever the URL arguments or the RPC payload
TransportCall(op, protocol) ==
    /\ Ready
    /\ \E p \in 1..Len(devices) :
       \E env \in RequestEnvs(PingedBy(devices, ping_allowed, p, protocol),
                              Scripts(protocol, retry_count)) :
          Transported(op, p, Request(devices, Globals, p, protocol, "any", env))
    /\ UNCHANGED <<dh, phase, settings, inputs, outputs, meters, response_timeout,
                   retry_count, retry_delay, ping_allowed, files>>

RestRequestCall == TransportCall("_rest_request", "REST")

RpcRequestCall == TransportCall("_rpc_request", "RPC")

\* what get_device_status itself logs: "error" in the except clauses (819,
\* 822), before the raises at 812, 816 and 855 and at 903; "debug" at 909 and
\* in the simulation import (1137, 1212).  The IndexError of list indexing
\* (885, 894-896) is caught by no clause and logged nowhere.
StatusLog(why, ret) ==
    CASE why = "index-error" -> {}
      [] why # "" /\ why # "index-error" -> {"error"}
      [] why = "" /\ ret = <<TRUE>> -> {"debug"}
      [] OTHER -> {}

\* what change_output itself logs: "error" at 1001, 1004, 1007, "warning" at
\* 981 when the status call returned False, "debug" at 1023 / 1026
ChangeLog(why, ret, reqs) ==
    CASE why = "index-error" -> {}
      [] why # "" /\ why # "index-error" -> {"error"}
      [] why = "" /\ ret[1] -> {"debug"}
      [] why = "" /\ ~ret[1] /\ reqs[Len(reqs)].method \notin {"Switch.Set", "relay"} ->
           {"warning"}
      [] OTHER -> {}

\* the severities a status or a change call logged, its requests included
\* (what the status call inside change_output logs is "error" when it raises
\* anything but the IndexError, as change_output then does itself)
CallLog(op, s) ==
    RequestLogs(s.reqs)
    \cup (IF op = "change_output" THEN ChangeLog(s.r.err, s.ret, s.reqs)
          ELSE StatusLog(s.r.err, s.ret))

\* a public call that works on the whole registry has ended: s = [r, ret, reqs]
Returned(op, p, o, new_state, payload, s) ==
    /\ devices' = s.r.devices
    /\ inputs' = s.r.inputs
    /\ outputs' = s.r.outputs
    /\ meters' = s.r.meters
    /\ files' = s.r.files
    /\ last' = [NoCall EXCEPT !.op = op, !.dev = p, !.out = o, !.arg = new_state,
                              !.exc = ExcOf(s.r.err), !.why = s.r.err, !.ret = s.ret,
                              !.reqs = s.reqs, !.prev = PrevOf(last),
                              !.payload = payload, !.log = CallLog(op, s)]
    /\ UNCHANGED <<dh, phase, settings, response_timeout, retry_count, retry_delay,
                   ping_allowed>>

-----------------------------------------------------------------------------
(* What the environment may answer during a call.  A family fam = [sys,      *)
(* input, switch, head, relay, short, meter, emeters, answer] gives the      *)
(* values the payloads are built from.                                       *)

NoRequestEnv == [ping |-> <<>>, script |-> NoScript]
NoEnv == [requests |-> <<>>, payload |-> NoPayload, answers |-> <<>>]

NoSys == [mac |-> NoneStr, uptime |-> AbsentNum, restart_required |-> "absent"]
FullSys == [mac |-> "m1", uptime |-> 7, restart_required |-> "True"]

NoHead == [mac |-> NoneStr, uptime |-> AbsentNum, has_update |-> "absent",
           temperature |-> AbsentNum]
FullHead == [mac |-> "m2", uptime |-> 9, has_update |-> "True", temperature |-> 30]

\* a switch section that reports only the output state
SwitchState(flag) == [NoSwitch EXCEPT !.output = flag]

\* the sequences of n or, when short, n - 1 entries over S
ListsOf(S, n, short) ==
    [1..n -> S] \cup (IF short /\ n > 0 THEN [1..(n - 1) -> S] ELSE {})

RpcPayloads(device, fam) ==
    {[sys |-> sy, input |-> ins, switch |-> sw] :
        sy \in fam.sys, ins \in [1..device.Inputs -> fam.input],
        sw \in [1..device.Outputs -> fam.switch]}

RestPayloads(device, fam) ==
    {[mac |-> h.mac, uptime |-> h.uptime, has_update |-> h.has_update,
      temperature |-> h.temperature, relays |-> rl, meters |-> ml,
      emeters |-> IF em THEN ml ELSE <<>>] :
        h \in fam.head, rl \in ListsOf(fam.relay, device.Outputs, fam.short),
        ml \in ListsOf(fam.meter, device.Meters, fam.short), em \in fam.emeters}

Payloads(device, fam) ==
    IF device.Protocol = "RPC" THEN RpcPayloads(device, fam) ELSE RestPayloads(device, fam)

\* the request is sent and answered: (True, data)
Succeeds(env, limit) ==
    /\ \A k \in DOMAIN env.ping : env.ping[k]
    /\ env.script.then = "ok"
    /\ env.script.timeouts <= limit

AnswerSeqs(n, fam) ==
    IF n <= 1 THEN {[k \in 1..n |-> AbsentNum]}
    ELSE {[k \in 1..n |-> v] : v \in fam.answer}

\* the answers to the requests of a live status call: a payload only when
\* the status request succeeds
LiveEnvs(device, limit, request_envs, n, fam) ==
    UNION {{[requests |-> rq, payload |-> pl, answers |-> an] :
               pl \in (IF Succeeds(rq[1], limit) THEN Payloads(device, fam)
                       ELSE {NoPayload}),
               an \in AnswerSeqs(n, fam)} :
           rq \in [1..n -> request_envs]}

\* the environments of get_device_status on the device at position p
StatusEnvs(devs, g, p, scripts, fam) ==
    IF devs[p].Simulate \/ devs[p].Protocol \notin {"RPC", "REST"} THEN {NoEnv}
    ELSE LiveEnvs(devs[p], g.limit,
                  RequestEnvs(PingedBy(devs, g.allowed, p, devs[p].Protocol), scripts),
                  Len(StatusMethods(devs[p])), fam)

\* the environments of change_output on an output of the device at position
\* p: an answer to the changing request only when the status request succeeds
ChangeEnvs(status_envs, request_envs, limit) ==
    UNION {{[status |-> se, mutate |-> me] :
               me \in (IF se.requests # <<>> /\ Succeeds(se.requests[1], limit)
                       THEN request_envs ELSE {NoRequestEnv})} :
           se \in status_envs}

\* get_device_status(device) called by the client
GetDeviceStatusWith(scripts, fam) ==
    /\ Ready
    /\ \E p \in 1..Len(devices) :
       \E env \in StatusEnvs(devices, Globals, p, scripts, fam) :
          Returned("get_device_status", p, 0, FALSE, env.payload,
                   GetDeviceStatus(Registry, Globals, p, env))

\* change_output(output, new_state) called by the client
ChangeOutputWith(scripts, fam) ==
    /\ Ready
    /\ \E o \in 1..Len(outputs), new_state \in BOOLEAN :
       \E env \in ChangeEnvs(
                    StatusEnvs(devices, Globals, outputs[o].DeviceIndex + 1, scripts, fam),
                    RequestEnvs(PingedBy(devices, ping_allowed, outputs[o].DeviceIndex + 1,
                                         devices[outputs[o].DeviceIndex + 1].Protocol),
                                scripts),
                    retry_count) :
          Returned("change_output", outputs[o].DeviceIndex + 1, o, new_state,
                   env.status.payload,
                   ChangeOutput(Registry, Globals, IdDict(o), new_state, env))

-----------------------------------------------------------------------------
(* DateHelper.now() and the freeze-time file.                               *)
(* Times are whole seconds.  freeze_time.json is a record [exists,          *)
(* freeze_time, parses, one_time, unit, num, den]: freeze_time is NoneNum   *)
(* when null or absent, parses tells whether fromisoformat accepts it,      *)
(* unit is offset_time_unit ("" when null or absent) and num / den is       *)
(* offset_time_amount, a fraction (den = 0 when null or absent).            *)

MaxTicks == 2
MaxCalls == 3

SecondsPerDay == 86400
SecondsPerHour == 3600
SecondsPerMinute == 60

Abs(x) == IF x < 0 THEN 0 - x ELSE x

NoFreezeFile ==
    [exists |-> FALSE, freeze_time |-> NoneNum, parses |-> FALSE, one_time |-> FALSE,
     unit |-> "", num |-> 0, den |-> 0]

\* lines 792-803: the largest unit the difference fills, and the amount in it
OffsetOf(total_seconds) ==
    IF Abs(total_seconds) >= SecondsPerDay
    THEN [unit |-> "days", num |-> total_seconds, den |-> SecondsPerDay]
    ELSE IF Abs(total_seconds) >= SecondsPerHour
    THEN [unit |-> "hours", num |-> total_seconds, den |-> SecondsPerHour]
    ELSE IF Abs(total_seconds) >= SecondsPerMinute
    THEN [unit |-> "minutes", num |-> total_seconds, den |-> SecondsPerMinute]
    ELSE [unit |-> "seconds", num |-> total_seconds, den |-> 1]

\* the seconds in one unit of a timedelta keyword (0: not a keyword, TypeError)
UnitSeconds(unit) ==
    CASE unit = "weeks" -> 7 * SecondsPerDay
      [] unit = "days" -> SecondsPerDay
      [] unit = "hours" -> SecondsPerHour
      [] unit = "minutes" -> SecondsPerMinute
      [] unit = "seconds" -> 1
      [] OTHER -> 0

RECURSIVE Gcd(_, _)
Gcd(a, b) == IF b = 0 THEN a ELSE Gcd(b, a % b)

\* num * per_unit / den, the fraction reduced first to stay within the integers
Scaled(num, per_unit, den, g) == (num * (per_unit \div g)) \div (den \div g)

\* line 830: dt.timedelta(**{offset_unit: offset_amount}), in seconds
Timedelta(unit, num, den) ==
    Scaled(num, UnitSeconds(unit), den, Gcd(UnitSeconds(unit), den))

Rewritten_KeepsFreezeTime(config, offset) ==
    [config EXCEPT !.one_time = FALSE, !.unit = offset.unit,
                   !.num = offset.num, !.den = offset.den]

\* lines 806-809: the configuration written back to the file
Rewritten(config, offset) ==
    [config EXCEPT !.freeze_time = NoneNum, !.one_time = FALSE, !.unit = offset.unit,
                   !.num = offset.num, !.den = offset.den]

\* how _get_frozen_time ends: ret = NoneNum for None
Frozen(ret, config) == [ret |-> ret, file |-> config]

\* lines 823-837: the offset branch
OffsetTime(config, actual_now) ==
    IF config.unit # "" /\ config.den # 0 /\ UnitSeconds(config.unit) # 0
    THEN Frozen(actual_now + Timedelta(config.unit, config.num, config.den), config)
    ELSE Frozen(NoneNum, config)

\* lines 783-816: the one_time rewrite (OSError on writing is passed over)
FreezeTime(config, actual_now, writable) ==
    IF config.one_time /\ writable
    THEN Frozen(config.freeze_time,
                Rewritten(config, OffsetOf(config.freeze_time - actual_now)))
    ELSE Frozen(config.freeze_time, config)

\* DateHelper._get_frozen_time(); actual_now is dt.datetime.now()
GetFrozenTime(config, actual_now, writable) ==
    IF ~config.exists THEN Frozen(NoneNum, config)
    ELSE IF config.freeze_time # NoneNum /\ config.parses
    THEN FreezeTime(config, actual_now, writable)
    ELSE OffsetTime(config, actual_now)

\* DateHelper.now(): lines 574-580
Now(frozen, actual_now) == IF frozen.ret # NoneNum THEN frozen.ret ELSE actual_now

\* the helper before any call: the file, the real clock, the ticks and the
\* now() calls so far, the clock and the result of the last call (at, ret),
\* the clock of the call that rewrote the file (first), whether the last
\* call could not write (denied), and the file as it was at the start
DateHelperAt(config, clock) ==
    [file |-> config, clock |-> clock, ticks |-> 0, calls |-> 0, at |-> NoneNum,
     ret |-> NoneNum, first |-> NoneNum, denied |-> FALSE, init |-> config]

IdleDateHelper == DateHelperAt(NoFreezeFile, 0)

-----------------------------------------------------------------------------
(* Configurations *)

NoList == [given |-> FALSE, items |-> <<>>]
ListOf(items) == [given |-> TRUE, items |-> items]

DeviceEntry(model, name, id, simulate, hostname, ins, outs, mets) ==
    [Model |-> model, Name |-> name, ID |-> id, Simulate |-> simulate,
     Hostname |-> hostname, Inputs |-> ins, Outputs |-> outs, Meters |-> mets]

Settings(timeout, count, delay, allowed, device_list) ==
    [ResponseTimeout |-> timeout, RetryCount |-> count, RetryDelay |-> delay,
     PingAllowed |-> allowed, Devices |-> device_list]

ModelCount(model, ctype) ==
    LET m == Models[CHOOSE i \in 1..Len(Models) : Models[i].model = model]
    IN CASE ctype = "inputs" -> m.inputs
         [] ctype = "outputs" -> m.outputs
         [] ctype = "meters" -> m.meters

\* The component list a configuration gives for n components, by variant:
\*   absent  no list                     blank   entries without ID and Name
\*   named   IDs 11.., names X1..        shift   IDs 2.., names defaulted
\*   long    one entry too many          anon    ID 0 and Name null
ComponentList(variant, n) ==
    CASE variant = "absent" -> NoList
      [] variant = "blank" -> ListOf([k \in 1..n |-> [ID |-> AbsentNum, Name |-> AbsentName]])
      [] variant = "named" -> ListOf([k \in 1..n |-> [ID |-> 10 + k, Name |-> <<"X">> \o NumStr(k)]])
      [] variant = "shift" -> ListOf([k \in 1..n |-> [ID |-> k + 1, Name |-> AbsentName]])
      [] variant = "long" -> ListOf([k \in 1..(n + 1) |-> [ID |-> AbsentNum, Name |-> AbsentName]])
      [] variant = "anon" -> ListOf([k \in 1..n |-> [ID |-> 0, Name |-> NoneName]])

EntryWith(model, ident, simulate, hostname, variant) ==
    LET counted == IF model \in ModelIds THEN model ELSE "RPC1PM" IN
    DeviceEntry(model, ident[1], ident[2], simulate, hostname,
                ComponentList(variant, ModelCount(counted, "inputs")),
                ComponentList(variant, ModelCount(counted, "outputs")),
                ComponentList(variant, ModelCount(counted, "meters")))

NameA == <<"A">>
ShellyDevice2 == DeviceNamePrefix \o <<"2">>

\* <<Name, ID>> as a configuration may give them
BuildIdentities ==
    { <<AbsentName, AbsentNum>>, <<NameA, 1>>, <<AbsentName, 2>>,
      <<ShellyDevice2, AbsentNum>>, <<NoneName, 2>> }

PlainIdentity == <<AbsentName, AbsentNum>>

BuildEntries ==
    { EntryWith(m, ident, FALSE, "h1", v) :
        m \in {"RPC1PM", "RPC2PM"}, ident \in BuildIdentities,
        v \in {"absent", "named", "shift"} }
    \cup { EntryWith(m, PlainIdentity, FALSE, "h1", "absent") : m \in {"NoSuchModel", "BADPM"} }
    \cup { EntryWith("RPC1PM", ident, FALSE, "h1", "absent") :
             ident \in { <<NoneName, 0>>, <<<<>>, NoneNum>> } }
    \cup { EntryWith("RPC1PM", PlainIdentity, FALSE, h, "absent") :
             h \in {NoneStr, "", "bad host"} }
    \cup { EntryWith("RPC1PM", PlainIdentity, TRUE, h, "absent") : h \in {NoneStr, "bad host"} }
    \cup { EntryWith("RPC2PM", PlainIdentity, FALSE, "h1", v) : v \in {"blank", "long"} }
    \cup { EntryWith("RPC1PM", PlainIdentity, FALSE, "h1", v) : v \in {"long", "anon"} }

RECURSIVE SeqsUpTo(_, _)
\* the sequences over S of length at most n
SeqsUpTo(S, n) ==
    IF n = 0 THEN {<<>>}
    ELSE LET shorter == SeqsUpTo(S, n - 1)
         IN shorter \cup {Append(q, x) : q \in {t \in shorter : Len(t) = n - 1}, x \in S}

BuildSettings ==
    { Settings(AbsentNum, AbsentNum, AbsentNum, "absent", ds) :
        ds \in SeqsUpTo(BuildEntries, MaxDevices) }

\* the object before __init__ runs, on a file system fs
NewObjectOn(cfg, fs) ==
    /\ phase = "new"
    /\ settings = cfg
    /\ devices = <<>>
    /\ inputs = <<>>
    /\ outputs = <<>>
    /\ meters = <<>>
    /\ response_timeout = DefaultResponseTimeout
    /\ retry_count = DefaultRetryCount
    /\ retry_delay = DefaultRetryDelay
    /\ ping_allowed = TRUE
    /\ files = fs
    /\ last = NoCall
    /\ dh = IdleDateHelper

NewObject(cfg) == NewObjectOn(cfg, <<>>)

InitBuild == \E cfg \in BuildSettings : NewObject(cfg)

NextBuild == Construct

SpecBuild == InitBuild /\ [][NextBuild]_vars

-----------------------------------------------------------------------------
(* What a configuration asks for, stated without the construction code *)

ComponentTypes == {"inputs", "outputs", "meters"}

ListGiven(e, ctype) ==
    CASE ctype = "inputs" -> e.Inputs
      [] ctype = "outputs" -> e.Outputs
      [] ctype = "meters" -> e.Meters

Distinct(q) == \A i, j \in 1..Len(q) : i # j => q[i] # q[j]

\* the name and the ID the k-th entry resolves to ("Shelly Device k" and k by default)
ResolvedNames(ds) ==
    [k \in 1..Len(ds) |-> IF ds[k].Name = AbsentName THEN DeviceNamePrefix \o NumStr(k)
                          ELSE ds[k].Name]
ResolvedIDs(ds) == [k \in 1..Len(ds) |-> IF ds[k].ID = AbsentNum THEN k ELSE ds[k].ID]

KnownModel(e) ==
    /\ \E i \in 1..Len(Models) : Models[i].model = e.Model
    /\ LET m == Models[CHOOSE i \in 1..Len(Models) : Models[i].model = e.Model]
       IN m.meters_seperate \/ m.meters = m.outputs

AddressGiven(e) ==
    /\ e.Simulate \/ (e.Hostname # NoneStr /\ e.Hostname # "")
    /\ (e.Hostname # NoneStr /\ e.Hostname # "") => IsValidHostname(e.Hostname)

CountsMatch(e) ==
    \A ctype \in ComponentTypes :
        ListGiven(e, ctype).given =>
            Len(ListGiven(e, ctype).items) = ModelCount(e.Model, ctype)

NoSlot == [ID |-> AbsentNum, Name |-> AbsentName]

RECURSIVE Slots(_, _, _)
\* every component of one type the entries 1..k ask for, in registry order
Slots(ds, ctype, k) ==
    IF k = 0 THEN <<>>
    ELSE Slots(ds, ctype, k - 1) \o
         (IF ListGiven(ds[k], ctype).given THEN ListGiven(ds[k], ctype).items
          ELSE [c \in 1..ModelCount(ds[k].Model, ctype) |-> NoSlot])

SlotNames(q, ctype) ==
    [p \in 1..Len(q) |-> IF q[p].Name = AbsentName THEN NamePrefix(ctype) \o NumStr(p)
                         ELSE q[p].Name]
SlotIDs(q) == [p \in 1..Len(q) |-> IF q[p].ID = AbsentNum THEN p ELSE q[p].ID]

Identified(id, name) == (id # NoneNum /\ id # 0) \/ (name # NoneName /\ name # <<>>)

DevicesWellIdentified(ds) ==
    /\ Distinct(ResolvedNames(ds))
    /\ Distinct(ResolvedIDs(ds))
    /\ \A k \in 1..Len(ds) : Identified(ResolvedIDs(ds)[k], ResolvedNames(ds)[k])
    /\ \A k \in 1..Len(ds) : ds[k].Simulate \/ (ds[k].Hostname # NoneStr /\ ds[k].Hostname # "")

ComponentsWellIdentified(ds) ==
    \A ctype \in ComponentTypes :
        LET q == Slots(ds, ctype, Len(ds)) IN
        /\ Distinct(SlotNames(q, ctype))
        /\ Distinct(SlotIDs(q))
        /\ \A p \in 1..Len(q) : Identified(SlotIDs(q)[p], SlotNames(q, ctype)[p])

ConfigValid(cfg) ==
    /\ \A k \in 1..Len(cfg.Devices) :
          KnownModel(cfg.Devices[k]) /\ AddressGiven(cfg.Devices[k])
    /\ (\A k \in 1..Len(cfg.Devices) : KnownModel(cfg.Devices[k])) =>
          /\ \A k \in 1..Len(cfg.Devices) : CountsMatch(cfg.Devices[k])
          /\ DevicesWellIdentified(cfg.Devices)
          /\ (\A k \in 1..Len(cfg.Devices) : CountsMatch(cfg.Devices[k])) =>
                ComponentsWellIdentified(cfg.Devices)

Constructed == phase = "ready"
ConstructionFailed == phase = "failed"

-----------------------------------------------------------------------------
-----------------------------------------------------------------------------
UniqueBy(list, key(_)) ==
    \A i, j \in 1..Len(list) : i # j => key(list[i]) # key(list[j])

(* C9: after a successful construction no two devices share a ClientName or *)
(* an ID, and within each component list no two components share a Name or  *)
(* an ID, across all devices, defaults included.                            *)
C9_UniqueIdentities ==
    Constructed =>
        /\ UniqueBy(devices, LAMBDA d : d.ClientName)
        /\ UniqueBy(devices, LAMBDA d : d.ID)
        /\ \A list \in {inputs, outputs, meters} :
              /\ UniqueBy(list, LAMBDA c : c.Name)
              /\ UniqueBy(list, LAMBDA c : c.ID)

C9_Witness ==
    /\ Constructed
    /\ Len(devices) = 2
    /\ Len(outputs) >= 3
    /\ ~settings.Devices[1].Outputs.given
    /\ settings.Devices[2].Outputs.given
    /\ settings.Devices[2].ID = AbsentNum

-----------------------------------------------------------------------------
ComponentsOf(list, di) == {k \in 1..Len(list) : list[k].DeviceIndex = di}

ListOfType(ctype) ==
    CASE ctype = "inputs" -> inputs
      [] ctype = "outputs" -> outputs
      [] ctype = "meters" -> meters

(* C10: after a successful construction the device at position i has Index  *)
(* i, every component's DeviceIndex is a position of the device list, and   *)
(* each device has, per type, exactly the number of components its model    *)
(* declares, with ComponentIndex 0..count-1 each once.                      *)
C10_ComponentCounts ==
    Constructed =>
        /\ \A i \in 1..Len(devices) : devices[i].Index = i - 1
        /\ \A ctype \in ComponentTypes :
              \A k \in 1..Len(ListOfType(ctype)) :
                  ListOfType(ctype)[k].DeviceIndex \in 0..(Len(devices) - 1)
        /\ \A i \in 1..Len(devices) : \A ctype \in ComponentTypes :
              LET own == ComponentsOf(ListOfType(ctype), devices[i].Index)
                  count == ModelCount(devices[i].Model, ctype)
              IN /\ Cardinality(own) = count
                 /\ \A c \in 0..(count - 1) :
                       Cardinality({k \in own : ListOfType(ctype)[k].ComponentIndex = c}) = 1

C10_Witness ==
    /\ Constructed
    /\ Len(devices) = 2
    /\ devices[1].Model = "RPC2PM"
    /\ devices[2].Model = "RPC1PM"
    /\ Len(outputs) = 3
    /\ Len(inputs) = 1

-----------------------------------------------------------------------------
(* The transport primitives on their own *)

TransportEntries ==
    { EntryWith("RPC1PM", PlainIdentity, FALSE, "h1", "absent"),
      EntryWith("REST1PM", PlainIdentity, FALSE, "h2", "absent"),
      EntryWith("RPC1PM", PlainIdentity, TRUE, NoneStr, "absent") }

\* <<RetryCount, RetryDelay>>: both left to their defaults, or both given
RetryPolicies == {<<AbsentNum, AbsentNum>>} \cup {<<count, 3>> : count \in 0..MaxRetry}

TransportSettings ==
    { Settings(AbsentNum, policy[1], policy[2], allowed, ds) :
        policy \in RetryPolicies, allowed \in {"absent", "False"},
        ds \in {q \in SeqsUpTo(TransportEntries, MaxDevices) : q # <<>> /\ Distinct(q)} }

InitTransport == \E cfg \in TransportSettings : NewObject(cfg)

NextTransport ==
    \/ Construct
    \/ IsDeviceOnlineCall
    \/ RestRequestCall
    \/ RpcRequestCall

SpecTransport == InitTransport /\ [][NextTransport]_vars

TransportOps == {"_rest_request", "_rpc_request"}

\* the requests of the last call, if it was one of `ops`
RequestsOf(ops) == IF last.op \in ops THEN {last.reqs[k] : k \in 1..Len(last.reqs)} ELSE {}

AlwaysTimesOut(obs) == obs.attempts > 0 /\ obs.script.then = "timeout"

-----------------------------------------------------------------------------
(* C4: a request to a reachable device whose every HTTP attempt times out   *)
(* makes exactly retry_count + 1 attempts, sleeps retry_delay exactly       *)
(* retry_count times (never after the last attempt) and then fails with     *)
(* TimeoutError; with retry_count = 0 it makes one attempt and no sleep.    *)
C4_TimeoutRetries ==
    \A obs \in RequestsOf(TransportOps) :
        obs.online /\ AlwaysTimesOut(obs) =>
            /\ obs.attempts = retry_count + 1
            /\ obs.sleeps = retry_count
            /\ obs.slept = retry_count * retry_delay
            /\ obs.res = "raised"
            /\ last.exc = "TimeoutError"
            /\ last.ret = <<>>

C4_Witness ==
    /\ \E obs \in RequestsOf({"_rest_request"}) :
          obs.online /\ AlwaysTimesOut(obs) /\ obs.sleeps = 2 /\ obs.pinged = 1
    /\ retry_count = 2

-----------------------------------------------------------------------------
(* C5: when the liveness probe reports the device unreachable, the request  *)
(* returns the offline result (False, {}) without raising, without any HTTP *)
(* attempt and without sleeping; no HTTP attempt is made before the probe   *)
(* has answered that the device is online, and every request to a device    *)
(* that is neither simulated nor exempt from pinging pings its host.        *)
C5_OfflineSkipsRequest ==
    \A obs \in RequestsOf(TransportOps) :
        /\ ~obs.online =>
              /\ obs.res = "offline"
              /\ obs.attempts = 0
              /\ obs.sleeps = 0
              /\ last.exc = ""
              /\ last.ret = <<FALSE>>
        /\ obs.attempts > 0 => obs.online
        /\ obs.attempts > 0 /\ ping_allowed /\ ~devices[last.dev].Simulate =>
              obs.pinged >= 1

C5_Witness ==
    /\ \E obs \in RequestsOf({"_rpc_request"}) : ~obs.online /\ obs.pinged = 1
    /\ ~devices[last.dev].Online

-----------------------------------------------------------------------------
(* C6: with PingAllowed false is_device_online pings no host, sets Online   *)
(* and returns True, and a transport request never returns the offline      *)
(* result and always proceeds to the HTTP attempt.                          *)
C6_NoPingAlwaysOnline ==
    Ready /\ settings.PingAllowed = "False" =>
        /\ last.pinged = 0
        /\ last.op = "is_device_online" =>
              /\ last.ret = <<TRUE>>
              /\ \A k \in 1..Len(devices) :
                    last.dev \in {0, k} => devices[k].Online
        /\ \A obs \in RequestsOf(TransportOps) :
              /\ obs.pinged = 0
              /\ obs.online
              /\ obs.res # "offline"
              /\ obs.attempts >= 1
              /\ devices[last.dev].Online

C6_Witness ==
    /\ Ready
    /\ settings.PingAllowed = "False"
    /\ \E obs \in RequestsOf({"_rest_request"}) : obs.attempts >= 1
    /\ ~devices[last.dev].Simulate

-----------------------------------------------------------------------------
(* The public operations on a constructed object *)

ControlFamily ==
    [sys |-> {NoSys, FullSys}, input |-> {"absent", "True"},
     switch |-> {SwitchState("True"), SwitchState("False")},
     head |-> {NoHead, FullHead}, relay |-> {"True", "False"}, short |-> FALSE,
     meter |-> {[power |-> 5, voltage |-> 230, total |-> 9]}, emeters |-> {FALSE},
     answer |-> {AbsentNum}]

\* answered at once, refused, or timing out at every attempt
ControlScripts(limit) ==
    {Script(0, "ok"), Script(0, "connection"), Script(limit + 1, "timeout")}

Live(model, hostname) == EntryWith(model, PlainIdentity, FALSE, hostname, "absent")
Simulated(model) == EntryWith(model, PlainIdentity, TRUE, NoneStr, "absent")

ControlDevices ==
    { <<Live(m, "h1")>> : m \in {"RPC1", "RPC2", "RPCEM", "REST1", "RESTC", "MQTT1"} }
    \cup { <<Simulated(m)>> : m \in {"RPC1", "RPC2"} }
    \cup { <<Live("RPC1", "h1"), Simulated("RPC1")>>,
           <<Simulated("RPC1"), Live("REST1", "h2")>> }

ControlSettings ==
    { Settings(AbsentNum, AbsentNum, AbsentNum, "absent", ds) : ds \in ControlDevices }
    \cup { Settings(AbsentNum, 0, AbsentNum, "False", <<Live(m, "h1")>>) :
             m \in {"RPC1", "REST1"} }

Init == \E cfg \in ControlSettings : NewObject(cfg)

GetDeviceStatusCall == GetDeviceStatusWith(ControlScripts(retry_count), ControlFamily)

ChangeOutputCall == ChangeOutputWith(ControlScripts(retry_count), ControlFamily)

Next ==
    \/ Construct
    \/ IsDeviceOnlineCall
    \/ GetDeviceStatusCall
    \/ ChangeOutputCall

Spec == Init /\ [][Next]_vars

\* every liveness probe of the call found the device (`how` = FALSE: un)reachable
Probes(call, how) ==
    /\ call.reqs # <<>>
    /\ \A k \in 1..Len(call.reqs) : call.reqs[k].online = how

\* every request of the call was answered with HTTP 200 and data
AllAnswered(call) == \A k \in 1..Len(call.reqs) : call.reqs[k].res = "ok"

MutateRequests(call) ==
    {k \in 1..Len(call.reqs) : call.reqs[k].method \in {"Switch.Set", "relay"}}

-----------------------------------------------------------------------------
(* C1: change_output is idempotent.  When change_output(output, s) returned *)
(* (True, _) and the next call on the object is change_output(output, s)    *)
(* again, with the device simulated or every probe of the second call       *)
(* finding it reachable and every request answered, the second call returns *)
(* (True, False) and the output's State is s.                               *)
C1_Idempotent ==
    /\ last.op = "change_output"
    /\ last.prev = [out |-> last.out, arg |-> last.arg]
    /\ devices[last.dev].Simulate \/ (Probes(last, TRUE) /\ AllAnswered(last))
    => /\ last.exc = ""
       /\ last.ret = <<TRUE, FALSE>>
       /\ outputs[last.out].State = last.arg

C1_Witness ==
    /\ last.op = "change_output"
    /\ last.prev = [out |-> last.out, arg |-> TRUE]
    /\ last.arg
    /\ ~devices[last.dev].Simulate
    /\ Len(last.reqs) = 2
    /\ last.ret = <<TRUE, FALSE>>
    /\ devices[last.dev].Protocol = "REST"

-----------------------------------------------------------------------------
OfflineChange(call, devs) ==
    /\ call.op = "change_output"
    /\ ~devs[call.dev].Simulate
    /\ Probes(call, FALSE)

OfflineResult(call) ==
    /\ call.ret = <<FALSE, FALSE>>
    /\ call.exc = ""
    /\ MutateRequests(call) = {}

Supported(device) ==
    device.Protocol = "RPC" \/ (device.Protocol = "REST" /\ device.MetersSeperate)

-----------------------------------------------------------------------------
(* C3: simulation round trip.  When change_output(output, s) on a simulated *)
(* device has returned and the next call is get_device_status on that       *)
(* device, the status call returns True, the output's State is s, every     *)
(* other output's State is as it was, and neither call made a transport     *)
(* request (the only place a liveness probe or an HTTP request is made).    *)
C3_SimulationRoundTrip ==
    [][/\ last.op = "change_output"
       /\ last.exc = ""
       /\ devices[last.dev].Simulate
       /\ last'.op = "get_device_status"
       /\ last'.dev = last.dev
       => /\ last'.ret = <<TRUE>>
          /\ last'.exc = ""
          /\ outputs'[last.out].State = last.arg
          /\ \A k \in 1..Len(outputs) : outputs'[k].State = outputs[k].State
          /\ last.reqs = <<>> /\ last.pinged = 0
          /\ last'.reqs = <<>> /\ last'.pinged = 0]_vars

C3_Witness ==
    /\ last.op = "get_device_status"
    /\ devices[last.dev].Simulate
    /\ last.prev.out # 0
    /\ last.prev.arg
    /\ outputs[last.prev.out].DeviceIndex = devices[last.dev].Index
    /\ devices[last.dev].Outputs = 2
    /\ \E k \in 1..Len(outputs) : k # last.prev.out /\ ~outputs[k].State
    /\ outputs[last.prev.out].State

-----------------------------------------------------------------------------
(* C7 (as stated): once construction has finished, the Online flag of a     *)
(* simulated device is True and stays True after any sequence of            *)
(* get_device_status, change_output and is_device_online calls.             *)
C7_SimulatedAlwaysOnline ==
    Ready => \A k \in 1..Len(devices) : devices[k].Simulate => devices[k].Online

-----------------------------------------------------------------------------
\* the state the status payload of the call reports for the output the call
\* is about: switch:<ComponentIndex>.output (RPC), relays[ComponentIndex].ison
ReportedState(call) ==
    IF devices[call.dev].Protocol = "RPC"
    THEN FlagOf(SwitchOf(call.payload, outputs[call.out].ComponentIndex).output)
    ELSE FlagOf(call.payload.relays[outputs[call.out].ComponentIndex + 1])

\* change_output on a live device returned (True, _)
LiveChangeSucceeded(call) ==
    /\ call.op = "change_output"
    /\ ~devices[call.dev].Simulate
    /\ call.ret \in {<<TRUE, TRUE>>, <<TRUE, FALSE>>}

(* C14 (as stated): when change_output succeeds on a non-simulated device,  *)
(* did_change is True exactly when the output state the device reported in  *)
(* the status refresh inside the call differs from the requested state.     *)
C14_DidChangeIsActualChange ==
    LiveChangeSucceeded(last) => (last.ret[2] <=> (ReportedState(last) # last.arg))

-----------------------------------------------------------------------------
\* the request of the call that changes the output, if it made one
MutateOutcomes(call) ==
    {call.reqs[k].res : k \in MutateRequests(call)}

(* C20: change_output sets the output's State to the requested state only   *)
(* after the mutate request (Switch.Set / relay) returned success: a live   *)
(* call that returns (True, _) made a mutate request that succeeded, and    *)
(* when the mutate request raised (TimeoutError or RuntimeError) or found   *)
(* the device offline, the State is the one the preceding status refresh    *)
(* read from the payload and the call raised or returned (False, False).    *)
C20_StateOnlyAfterMutateSuccess ==
    last.op = "change_output" /\ ~devices[last.dev].Simulate =>
        /\ LiveChangeSucceeded(last) =>
              /\ MutateOutcomes(last) = {"ok"}
              /\ outputs[last.out].State = last.arg
        /\ MutateOutcomes(last) \cap {"raised", "offline"} # {} =>
              /\ outputs[last.out].State = ReportedState(last)
              /\ ~LiveChangeSucceeded(last)
              /\ "raised" \in MutateOutcomes(last) => last.exc \in {"TimeoutError", "RuntimeError"}
              /\ "offline" \in MutateOutcomes(last) => last.ret = <<FALSE, FALSE>> /\ last.exc = ""

C20_Witness ==
    /\ last.op = "change_output"
    /\ ~devices[last.dev].Simulate
    /\ MutateOutcomes(last) = {"raised"}
    /\ last.exc = "TimeoutError"
    /\ last.arg
    /\ ~ReportedState(last)
    /\ ~outputs[last.out].State

-----------------------------------------------------------------------------
(* The status reconciler on devices with inputs and meters, with payloads   *)
(* that may lack keys or list entries, and with simulation files left by an *)
(* earlier run                                                              *)

StatusSwitches ==
    {[NoSwitch EXCEPT !.output = "True", !.apower = 5, !.total = 9],
     [NoSwitch EXCEPT !.output = "False", !.tC = 40],
     [NoSwitch EXCEPT !.output = "True", !.tC = 0]}

StatusFamily ==
    [sys |-> {FullSys}, input |-> {"absent", "True"}, switch |-> StatusSwitches,
     head |-> {FullHead}, relay |-> {"True", "False"}, short |-> TRUE,
     meter |-> {[power |-> 3, voltage |-> 230, total |-> 4],
                [power |-> AbsentNum, voltage |-> AbsentNum, total |-> AbsentNum]},
     emeters |-> {FALSE, TRUE}, answer |-> {AbsentNum}]

StatusDevices ==
    { <<Live(m, "h1")>> : m \in {"RPC1", "RPC1PM", "RPC2PM", "RPCEM", "REST1", "REST1PM",
                                 "REST1IN"} }
    \cup { <<Simulated("RPC2PM")>>,
           <<Live("REST1PM", "h1"), Live("RPC1PM", "h2")>>,
           <<Simulated("RPC1PM"), Live("REST1PM", "h1")>> }

StatusSettings ==
    { Settings(AbsentNum, 0, AbsentNum, "absent", ds) : ds \in StatusDevices }

\* the meter readings a simulation file may hold
FileReadings == {[Power |-> 7, Energy |-> 2], [Power |-> NoneNum, Energy |-> 6]}

\* a simulation document with the readings of its meters edited
EditedDocument(doc, readings) ==
    [doc EXCEPT !.Meters = [k \in 1..Len(doc.Meters) |->
                              [doc.Meters[k] EXCEPT !.Power = readings[k].Power,
                                                    !.Energy = readings[k].Energy]]]

\* the file systems an earlier run of the configuration may have left: none
\* of its simulation files, or all of them with edited meter readings
EditedFiles(fs) ==
    {[f \in DOMAIN fs |-> EditedDocument(fs[f], rd)] :
        rd \in [1..2 -> FileReadings]}

SimulationFiles(cfg) ==
    {<<>>} \cup EditedFiles(AddDevicesFromConfig(<<>>, cfg).files)

InitStatus ==
    \E cfg \in StatusSettings : \E fs \in SimulationFiles(cfg) : NewObjectOn(cfg, fs)

StatusRefresh == GetDeviceStatusWith(ControlScripts(retry_count), StatusFamily)

NextStatus ==
    \/ Construct
    \/ StatusRefresh

SpecStatus == InitStatus /\ [][NextStatus]_vars

\* get_device_status on a live device of a supported kind has ended
LiveStatusCall(call) ==
    /\ call.op = "get_device_status"
    /\ ~devices[call.dev].Simulate
    /\ devices[call.dev].Protocol = "RPC"
       \/ (devices[call.dev].Protocol = "REST" /\ devices[call.dev].MetersSeperate)

\* the payload has an entry for every component the reconciler reads
WellFormed(payload, device) ==
    IF device.Protocol = "RPC"
    THEN Len(payload.input) = device.Inputs /\ Len(payload.switch) = device.Outputs
    ELSE Len(payload.relays) = device.Outputs /\ Len(MeterList(payload)) >= device.Meters

\* the state the payload reports for the output at position k
ReportedFor(payload, device, k) ==
    IF device.Protocol = "RPC"
    THEN FlagOf(SwitchOf(payload, outputs[k].ComponentIndex).output)
    ELSE FlagOf(payload.relays[outputs[k].ComponentIndex + 1])

(* C11 (as stated): after get_device_status returns True for a live device  *)
(* of either protocol and any model, Online is True and every output's      *)
(* State is the one the payload reports for its channel; and a reachable    *)
(* device that answers every request with a well-formed payload always      *)
(* leads to such a return.                                                  *)
C11_StatusReflectsPayload ==
    LiveStatusCall(last) =>
        /\ last.ret = <<TRUE>> =>
              /\ devices[last.dev].Online
              /\ \A k \in 1..Len(outputs) :
                    outputs[k].DeviceIndex = devices[last.dev].Index =>
                        outputs[k].State = ReportedFor(last.payload, devices[last.dev], k)
        /\ (/\ Probes(last, TRUE)
            /\ AllAnswered(last)
            /\ WellFormed(last.payload, devices[last.dev]))
           => last.ret = <<TRUE>> /\ last.exc = ""

-----------------------------------------------------------------------------
\* the meters of the device with the given Index
MetersOf(index) == {k \in 1..Len(meters) : meters[k].DeviceIndex = index}

RECURSIVE PowerOver(_)
\* the sum of Power over a set of meters, an unset Power counting 0
PowerOver(S) ==
    IF S = {} THEN 0
    ELSE LET k == CHOOSE j \in S : TRUE
         IN (IF meters[k].Power = NoneNum THEN 0 ELSE meters[k].Power)
            + PowerOver(S \ {k})

RECURSIVE EnergyOver(_)
\* the sum of Energy over a set of meters, an unset Energy counting 0
EnergyOver(S) ==
    IF S = {} THEN 0
    ELSE LET k == CHOOSE j \in S : TRUE
         IN (IF meters[k].Energy = NoneNum THEN 0 ELSE meters[k].Energy)
            + EnergyOver(S \ {k})

(* C12: after every get_device_status that returns True, live or simulated, *)
(* the device's TotalPower is the sum of Power over exactly the meters      *)
(* whose DeviceIndex is the device's Index, an unset Power counting 0, and  *)
(* TotalEnergy is the same sum over Energy.                                 *)
C12_TotalsAreMeterSums ==
    last.op = "get_device_status" /\ last.ret = <<TRUE>> =>
        /\ devices[last.dev].TotalPower = PowerOver(MetersOf(devices[last.dev].Index))
        /\ devices[last.dev].TotalEnergy = EnergyOver(MetersOf(devices[last.dev].Index))

\* a live device whose meter reads a power, beside a device whose meter
\* reads a power too
C12_Witness ==
    /\ last.op = "get_device_status"
    /\ last.ret = <<TRUE>>
    /\ ~devices[last.dev].Simulate
    /\ devices[last.dev].TotalPower > 0
    /\ \E k \in 1..Len(meters) :
          meters[k].DeviceIndex # devices[last.dev].Index /\ meters[k].Power > 0

\* a simulated device whose file holds an unset and a set reading
C12_SimulatedWitness ==
    /\ last.op = "get_device_status"
    /\ last.ret = <<TRUE>>
    /\ devices[last.dev].Simulate
    /\ devices[last.dev].TotalPower = 7
    /\ devices[last.dev].TotalEnergy = 8
    /\ \E k \in MetersOf(devices[last.dev].Index) : meters[k].Power = NoneNum

-----------------------------------------------------------------------------
\* get_device_status on a live RPC device with separate meters has ended
SeparateMeterCall(call) ==
    /\ call.op = "get_device_status"
    /\ ~devices[call.dev].Simulate
    /\ devices[call.dev].Protocol = "RPC"
    /\ devices[call.dev].MetersSeperate
    /\ devices[call.dev].Meters > 0

\* an EM1.GetStatus or EM1Data.GetStatus call of the refresh returned no result
MeterCallWithoutResult(call) ==
    \E k \in 1..Len(call.reqs) :
        /\ call.reqs[k].method \in {"EM1.GetStatus", "EM1Data.GetStatus"}
        /\ call.reqs[k].res # "ok"

(* C13 (as stated): for an RPC device with separate meters, the refresh     *)
(* fails with the fatal meter error if and only if an EM1.GetStatus or      *)
(* EM1Data.GetStatus call returned no result for some meter channel; when   *)
(* every call succeeds the refresh returns True.                            *)
C13_MeterErrorIffCallFailed ==
    SeparateMeterCall(last) =>
        /\ last.why = "meter-call-failed" => MeterCallWithoutResult(last)
        /\ Probes(last, TRUE) /\ AllAnswered(last) =>
              last.ret = <<TRUE>> /\ last.exc = ""

-----------------------------------------------------------------------------
(* C16 (as stated): from get_device_status and change_output a request that *)
(* exhausted its retries surfaces as TimeoutError, connection failures,     *)
(* error-bearing or empty responses and unsupported protocols surface as    *)
(* RuntimeError, and no other exception kind escapes.                       *)
C16_ExceptionKinds ==
    last.op \in {"get_device_status", "change_output"} =>
        /\ last.why = "timeout" <=> last.exc = "TimeoutError"
        /\ last.exc \in {"", "TimeoutError", "RuntimeError"}

-----------------------------------------------------------------------------
(* C18 (as stated): when get_device_status returns without raising for a    *)
(* live device, the value it returns is the device's Online flag at that    *)
(* moment.                                                                  *)
C18_ReturnIsOnlineFlag ==
    /\ last.op = "get_device_status"
    /\ ~devices[last.dev].Simulate
    /\ last.exc = ""
    => last.ret = <<devices[last.dev].Online>>

-----------------------------------------------------------------------------
(* Lookup by identity, as the client calls it *)

\* a lookup has ended: found is the position of the record in its list (0:
\* not found), kept in dev for a device and in out for a component.
\* get_device and get_device_component call log_message nowhere (420-470).
Looked(op, component_type, identity, found, why, log) ==
    last' = [NoCall EXCEPT
               !.op = op, !.ctype = component_type, !.ident = identity,
               !.dev = IF component_type = "" THEN found ELSE 0,
               !.out = IF component_type = "" THEN 0 ELSE found,
               !.exc = IF found = 0 THEN "RuntimeError" ELSE "",
               !.why = IF found = 0 THEN why ELSE "",
               !.prev = PrevOf(last), !.log = log]

NameB == <<"B">>
InputOne == NamePrefix("inputs") \o <<"1">>
OutputTwo == NamePrefix("outputs") \o <<"2">>

\* the numbers and names a client asks for: some registered, some not
AskedIdentities ==
    {IdNum(n) : n \in {0, 1, 2, 7}}
    \cup {IdName(s) : s \in {NameA, NameB, ShellyDevice2, InputOne, OutputTwo}}

\* get_device(device_identity) called by the client
GetDeviceCall ==
    /\ Ready
    /\ \E identity \in AskedIdentities \cup {IdDict(k) : k \in 1..Len(devices)} :
          Looked("get_device", "", identity, GetDevice(devices, identity),
                 "device-not-found", {})
    /\ UNCHANGED <<dh, phase, settings, devices, inputs, outputs, meters, response_timeout,
                   retry_count, retry_delay, ping_allowed, files>>

\* lines 455-463: the list a component type selects
ComponentListOf(component_type) ==
    CASE component_type = "input" -> inputs
      [] component_type = "output" -> outputs
      [] component_type = "meter" -> meters
      [] OTHER -> <<>>

\* get_device_component(component_type, component_identity) called by the client
GetDeviceComponentCall ==
    /\ Ready
    /\ \E component_type \in {"input", "output", "meter", "switch"} :
       \E identity \in AskedIdentities
                       \cup {IdDict(k) : k \in 1..Len(ComponentListOf(component_type))} :
          IF component_type \notin {"input", "output", "meter"}
          THEN Looked("get_device_component", component_type, identity, 0,
                      "invalid-component-type", {})
          ELSE Looked("get_device_component", component_type, identity,
                      GetDeviceComponent(ComponentListOf(component_type), identity),
                      "component-not-found", {})
    /\ UNCHANGED <<dh, phase, settings, devices, inputs, outputs, meters, response_timeout,
                   retry_count, retry_delay, ping_allowed, files>>

\* is_device_online(device_identity) with a number or a name; the
\* RuntimeError of get_device is re-raised without a log entry (504-505)
IsDeviceOnlineById ==
    /\ Ready
    /\ \E identity \in AskedIdentities :
       \E ping \in [PingedFor(devices, ping_allowed, identity) -> BOOLEAN] :
          IF GetDevice(devices, identity) = 0
          THEN /\ Looked("is_device_online", "", identity, 0, "device-not-found", {})
               /\ UNCHANGED devices
          ELSE Probe([identity EXCEPT !.i = GetDevice(devices, identity)],
                     IsDeviceOnline(devices, ping_allowed, identity, ping))
    /\ UNCHANGED <<dh, phase, settings, inputs, outputs, meters, response_timeout,
                   retry_count, retry_delay, ping_allowed, files>>

\* get_device_information(device_identity, refresh_status=False): the
\* RuntimeError of get_device is logged at "error" and re-raised (1047-1049)
GetDeviceInformationCall ==
    /\ Ready
    /\ \E identity \in AskedIdentities \cup {IdDict(k) : k \in 1..Len(devices)} :
          Looked("get_device_information", "", identity,
                 GetDevice(devices, identity), "device-not-found",
                 IF GetDevice(devices, identity) = 0 THEN {"error"} ELSE {})
    /\ UNCHANGED <<dh, phase, settings, devices, inputs, outputs, meters, response_timeout,
                   retry_count, retry_delay, ping_allowed, files>>

LookupEntries ==
    { EntryWith("RPC1PM", ident, FALSE, "h1", "absent") :
        ident \in {PlainIdentity, <<NameA, 7>>, <<NoneName, 2>>} }
    \cup { EntryWith("RPC1PM", <<NameB, 0>>, FALSE, "h1", "named"),
           EntryWith("RPC2", PlainIdentity, TRUE, NoneStr, "absent") }

LookupSettings ==
    { Settings(AbsentNum, AbsentNum, AbsentNum, "absent", ds) :
        ds \in {q \in SeqsUpTo(LookupEntries, MaxDevices) : q # <<>>} }

InitLookup == \E cfg \in LookupSettings : NewObject(cfg)

NextLookup ==
    \/ Construct
    \/ GetDeviceCall
    \/ GetDeviceComponentCall
    \/ IsDeviceOnlineById
    \/ GetDeviceInformationCall

SpecLookup == InitLookup /\ [][NextLookup]_vars

\* the identity is a number or a name (not a record, not None)
ByNumberOrName(identity) == identity.kind \in {"id", "name"}

\* the positions of the list whose record has the number as its ID or the
\* name as its name (`name`: "ClientName" for devices, "Name" for components)
Carriers(list, name, identity) ==
    {k \in 1..Len(list) :
        \/ identity.kind = "id" /\ list[k].ID = identity.n
        \/ identity.kind = "name" /\ list[k][name] = identity.s}

\* how a lookup in `list` must have ended
Resolved(call, found, list, name) ==
    IF call.ident.kind = "dict" THEN found = call.ident.i /\ call.exc = ""
    ELSE IF Carriers(list, name, call.ident) = {}
    THEN found = 0 /\ call.exc = "RuntimeError"
    ELSE /\ Carriers(list, name, call.ident) = {found}
         /\ call.exc = ""

-----------------------------------------------------------------------------
PublicOperations ==
    {"get_device", "get_device_component", "is_device_online", "get_device_status",
     "change_output", "get_device_information"}

(* C17 (as stated): every exception that leaves a public operation is       *)
(* preceded, within the call, by a log_message at "error" severity, and an  *)
(* offline outcome (a False result) is logged at "warning" or "debug" only  *)
(* and raises nothing.                                                      *)
C17_ErrorLoggedBeforeRaise ==
    last.op \in PublicOperations =>
        /\ last.exc # "" => "error" \in last.log
        /\ last.ret \in {<<FALSE>>, <<FALSE, FALSE>>} =>
              last.exc = "" /\ last.log \subseteq {"warning", "debug"}

-----------------------------------------------------------------------------
(* DateHelper.now() under a freeze_time.json, with the real clock ticking *)

FreezeT == 100000

FrozenFile(one_time) ==
    [NoFreezeFile EXCEPT !.exists = TRUE, !.freeze_time = FreezeT, !.parses = TRUE,
                         !.one_time = one_time]

FreezeFiles ==
    {NoFreezeFile, FrozenFile(TRUE), FrozenFile(FALSE),
     [FrozenFile(TRUE) EXCEPT !.parses = FALSE, !.unit = "hours", !.num = 3, !.den = 2],
     [NoFreezeFile EXCEPT !.exists = TRUE, !.unit = "minutes", !.num = 0 - 5, !.den = 1],
     [NoFreezeFile EXCEPT !.exists = TRUE, !.unit = "fortnights", !.num = 1, !.den = 1],
     [NoFreezeFile EXCEPT !.exists = TRUE, !.unit = "days"]}

\* the real clock at the start: a day, an hour, a minute, seconds before the
\* frozen time, at it, and after it
StartClocks ==
    {FreezeT - 90000, FreezeT - 4000, FreezeT - 90, FreezeT - 30, FreezeT,
     FreezeT + 30, FreezeT + 4000}

ClockSteps == {1, 50}

InitFreeze ==
    /\ phase = "new"
    /\ settings = Settings(AbsentNum, AbsentNum, AbsentNum, "absent", <<>>)
    /\ devices = <<>>
    /\ inputs = <<>>
    /\ outputs = <<>>
    /\ meters = <<>>
    /\ response_timeout = DefaultResponseTimeout
    /\ retry_count = DefaultRetryCount
    /\ retry_delay = DefaultRetryDelay
    /\ ping_allowed = TRUE
    /\ files = <<>>
    /\ last = NoCall
    /\ \E config \in FreezeFiles, clock \in StartClocks : dh = DateHelperAt(config, clock)

\* real time passes
Tick ==
    /\ dh.ticks < MaxTicks
    /\ \E step \in ClockSteps :
          dh' = [dh EXCEPT !.clock = @ + step, !.ticks = @ + 1]
    /\ UNCHANGED <<phase, settings, devices, inputs, outputs, meters, response_timeout,
                   retry_count, retry_delay, ping_allowed, files, last>>

\* a now() call has ended
NowEnded(frozen, writable) ==
    dh' = [dh EXCEPT !.file = frozen.file, !.calls = @ + 1, !.at = dh.clock,
                     !.ret = Now(frozen, dh.clock),
                     !.first = IF frozen.file # dh.file THEN dh.clock ELSE @,
                     !.denied = ~writable]

\* DateHelper.now() called by the client; the file may or may not be writable
NowCall ==
    /\ dh.calls < MaxCalls
    /\ \E writable \in BOOLEAN :
          NowEnded(GetFrozenTime(dh.file, dh.clock, writable), writable)
    /\ UNCHANGED <<phase, settings, devices, inputs, outputs, meters, response_timeout,
                   retry_count, retry_delay, ping_allowed, files, last>>

NextFreeze ==
    \/ Tick
    \/ NowCall

SpecFreeze == InitFreeze /\ [][NextFreeze]_vars

\* the file once the one_time freeze has been turned into an offset
TurnedIntoOffset(config) ==
    /\ config.exists
    /\ config.freeze_time = NoneNum
    /\ ~config.one_time
    /\ config.unit \in {"days", "hours", "minutes", "seconds"}
    /\ config.den # 0

(* C19: with a freeze_time.json holding freeze_time = T and one_time = true *)
(* (the file being writable), the first now() returns T and rewrites the    *)
(* file to freeze_time = null, one_time = false with offset_time_unit and   *)
(* offset_time_amount set, and every later now() returns T plus the real    *)
(* time elapsed since that first call; with one_time = false every now()    *)
(* returns T and the file stays as it was.                                  *)
C19_OneTimeFreezeTicks ==
    dh.calls >= 1 /\ dh.init \in {FrozenFile(TRUE), FrozenFile(FALSE)} =>
        IF dh.init.one_time
        THEN /\ dh.calls = 1 /\ ~dh.denied =>
                  dh.ret = FreezeT /\ dh.first = dh.at /\ TurnedIntoOffset(dh.file)
             /\ dh.first # NoneNum =>
                  /\ dh.ret = FreezeT + (dh.at - dh.first)
                  /\ TurnedIntoOffset(dh.file)
             /\ dh.first = NoneNum => dh.ret = FreezeT /\ dh.file = dh.init
        ELSE dh.ret = FreezeT /\ dh.file = dh.init

\* the third call, 51 seconds after the first, which found T more than an
\* hour ahead
C19_Witness ==
    /\ dh.init = FrozenFile(TRUE)
    /\ dh.calls = 3
    /\ dh.first # NoneNum
    /\ dh.at = dh.first + 51
    /\ dh.ret = FreezeT + 51
    /\ dh.file.unit = "hours"

-----------------------------------------------------------------------------
\* the request made an HTTP attempt that was answered by `answers`
EndedBy(obs, answers) ==
    /\ obs.attempts > obs.script.timeouts
    /\ obs.script.then \in answers

FatalAnswers == {"connection", "http_error", "unauthorized", "status", "empty", "rpc_error"}

(* C21: a transport attempt that ends in a connection error or in any other *)
(* failure that is not a timeout (HTTP error status, empty body, RPC        *)
(* response without result or with error.message) ends the request at once  *)
(* with a RuntimeError: it is the last attempt and no sleep follows it,     *)
(* whichever attempt it is, also after earlier timeouts were retried (only  *)
(* those were slept after).                                                 *)
C21_FatalEndsAtOnce ==
    \A obs \in RequestsOf(TransportOps) :
        EndedBy(obs, FatalAnswers) =>
            /\ obs.res = "raised"
            /\ last.exc = "RuntimeError"
            /\ last.ret = <<>>
            /\ obs.attempts = obs.script.timeouts + 1
            /\ obs.sleeps = obs.script.timeouts
            /\ obs.slept = obs.script.timeouts * retry_delay

\* an RPC error message on the third attempt, after two retried timeouts
C21_Witness ==
    /\ \E obs \in RequestsOf({"_rpc_request"}) :
          /\ EndedBy(obs, {"rpc_error"})
          /\ obs.attempts = 3
          /\ obs.sleeps = 2
    /\ last.exc = "RuntimeError"

(* C23: an RPC request answered with HTTP 401 fails with the "unauthorised, *)
(* authorisation not yet implemented" failure, which differs from the       *)
(* failure of any other status that is not 200.                             *)
C23_UnauthorisedIsDistinct ==
    \A obs \in RequestsOf({"_rpc_request"}) :
        EndedBy(obs, {"unauthorized"}) =>
            /\ obs.err = "unauthorised"
            /\ obs.err # AnswerError("RPC", "http_error")
            /\ obs.err # AnswerError("RPC", "status")

-----------------------------------------------------------------------------
(* C22: when the construction of the registry raises on some device entry,  *)
(* the registry holds no devices and no components afterwards: neither the  *)
(* entries processed before the failing one nor the partly built failing    *)
(* device are left for get_device or get_device_component to find.          *)
C22_FailedRegistryIsEmpty ==
    ConstructionFailed =>
        /\ devices = <<>>
        /\ inputs = <<>>
        /\ outputs = <<>>
        /\ meters = <<>>

-----------------------------------------------------------------------------
\* the payload has no state for the channel of the output at position k
LacksOutput(payload, device, k) ==
    IF device.Protocol = "RPC"
    THEN SwitchOf(payload, outputs[k].ComponentIndex).output = "absent"
    ELSE outputs[k].ComponentIndex + 1 \notin DOMAIN payload.relays

\* the payload has the meter entries the reconciler reads for the device
HasMeterEntries(payload, device) ==
    device.Protocol = "REST" => Len(MeterList(payload)) >= device.Meters

(* C24: a successful response that lacks the section or the field of some   *)
(* input or output channel is tolerated for both protocols: the refresh     *)
(* returns True, raises nothing and sets the State of the channel to False; *)
(* only missing entries of separate meters are fatal.                       *)
C24_MissingChannelTolerated ==
    (/\ LiveStatusCall(last)
     /\ Probes(last, TRUE)
     /\ AllAnswered(last)
     /\ ~SeparateMeterCall(last)
     /\ HasMeterEntries(last.payload, devices[last.dev]))
    => /\ last.ret = <<TRUE>>
       /\ last.exc = ""
       /\ \A k \in 1..Len(outputs) :
             (/\ outputs[k].DeviceIndex = devices[last.dev].Index
              /\ LacksOutput(last.payload, devices[last.dev], k))
             => ~outputs[k].State

-----------------------------------------------------------------------------
\* the outputs of the device with the given Index that report a temperature
ReportingOutputs(index) ==
    {k \in 1..Len(outputs) :
        outputs[k].DeviceIndex = index /\ outputs[k].Temperature # NoneNum}

RECURSIVE TemperatureOver(_)
\* the sum of Temperature over a set of outputs
TemperatureOver(S) ==
    IF S = {} THEN 0
    ELSE LET k == CHOOSE j \in S : TRUE
         IN outputs[k].Temperature + TemperatureOver(S \ {k})

(* C25: after a successful status refresh of a device with temperature      *)
(* monitoring, the device Temperature is the arithmetic mean of the         *)
(* Temperature values of its own outputs that are not None (an output at 0  *)
(* degrees counts as a reading), and it is None when none of its outputs    *)
(* reports a temperature, even if an earlier refresh had computed a value.  *)
C25_TemperatureIsMean ==
    (/\ last.op = "get_device_status"
     /\ last.ret = <<TRUE>>
     /\ ~devices[last.dev].Simulate
     /\ devices[last.dev].TemperatureMonitoring)
    => IF ReportingOutputs(devices[last.dev].Index) = {}
       THEN devices[last.dev].Temperature = NoneNum
       ELSE devices[last.dev].Temperature
               * Cardinality(ReportingOutputs(devices[last.dev].Index))
            = TemperatureOver(ReportingOutputs(devices[last.dev].Index))

-----------------------------------------------------------------------------
(* Simulated devices whose simulation files are written by hand or left by  *)
(* another configuration                                                    *)

NameDash == <<"A", "-", "1">>
NameSpace == <<"A", " ", "1">>

SimulatedAs(model, name) == EntryWith(model, <<name, AbsentNum>>, TRUE, NoneStr, "absent")

SimulationDevices ==
    { <<Simulated("RPC1PM")>>,
      <<SimulatedAs("RPC1", NameDash), SimulatedAs("RPC1", NameSpace)>> }

SimulationSettings ==
    { Settings(AbsentNum, AbsentNum, AbsentNum, "absent", ds) : ds \in SimulationDevices }

\* a device object of another registry, with two keys no device record has
ForeignDevice(dev) ==
    [MACAddress |-> "zz", Foo |-> 1]
    @@ [dev EXCEPT !.Index = 7, !.ID = 99, !.ClientName = <<"X">>, !.Hostname = "hx",
                   !.Port = 81, !.Simulate = FALSE, !.SimulationFile = <<"X">>,
                   !.Model = "REST1", !.Protocol = "REST", !.Inputs = 3, !.Outputs = 3,
                   !.Meters = 3, !.MetersSeperate = ~@, !.TemperatureMonitoring = ~@,
                   !.Online = FALSE, !.MacAddress = "zz", !.Uptime = 11,
                   !.RestartRequired = "True", !.Temperature = 33, !.TotalPower = 77,
                   !.TotalEnergy = 77]

\* a component of another registry on the same channel, with a key no
\* component record has
ForeignComponent(c) ==
    [key \in DOMAIN c \cup {"Foo"} |->
        CASE key = "ID" -> 99
          [] key = "Name" -> <<"X">>
          [] key = "DeviceIndex" -> 7
          [] key = "State" -> TRUE
          [] key = "Temperature" -> 33
          [] key \in MeterIncludedKeys -> 5
          [] key = "Foo" -> 1
          [] OTHER -> c[key]]

ForeignList(list) == [k \in 1..Len(list) |-> ForeignComponent(list[k])]

\* the components moved to the next channel
ShiftedList(list) ==
    [k \in 1..Len(list) |-> [ForeignComponent(list[k]) EXCEPT !.ComponentIndex = @ + 1]]

FileVariants == {"foreign", "sparse", "shifted"}

\* what a simulation file may hold instead of the exported document `doc`
WrittenByHand(doc, variant) ==
    CASE variant = "foreign" ->
           [dev |-> ForeignDevice(doc.dev), Inputs |-> ForeignList(doc.Inputs),
            Outputs |-> ForeignList(doc.Outputs), Meters |-> ForeignList(doc.Meters)]
      [] variant = "sparse" ->
           [dev |-> [Online |-> FALSE, Index |-> 7],
            Outputs |-> <<[ComponentIndex |-> 0]>>,
            Meters |-> <<[ComponentIndex |-> 0, Energy |-> 4, Foo |-> 1]>>]
      [] variant = "shifted" ->
           [dev |-> doc.dev, Inputs |-> ShiftedList(doc.Inputs),
            Outputs |-> ShiftedList(doc.Outputs) \o ForeignList(doc.Outputs),
            Meters |-> ShiftedList(doc.Meters)]

\* the files an earlier run may have left: none, or every file of the
\* configuration in one of the variants
LeftFiles(fs) ==
    {<<>>} \cup {[f \in DOMAIN fs |-> WrittenByHand(fs[f], v)] : v \in FileVariants}

InitSimulation ==
    \E cfg \in SimulationSettings :
    \E fs \in LeftFiles(AddDevicesFromConfig(<<>>, cfg).files) : NewObjectOn(cfg, fs)

\* the simulation file of a device is rewritten outside of the object, from
\* the document the construction exports
EditFile ==
    /\ Ready
    /\ \E p \in 1..Len(devices), v \in FileVariants :
          /\ devices[p].Simulate
          /\ files' = (devices[p].SimulationFile
                         :> WrittenByHand(AddDevicesFromConfig(<<>>, settings)
                                             .files[devices[p].SimulationFile], v))
                      @@ files
    /\ UNCHANGED <<dh, phase, settings, devices, inputs, outputs, meters,
                   response_timeout, retry_count, retry_delay, ping_allowed, last>>

NextSimulation ==
    \/ Construct
    \/ GetDeviceStatusCall
    \/ ChangeOutputCall
    \/ EditFile

SpecSimulation == InitSimulation /\ [][NextSimulation]_vars

\* the keys of a record that an import may assign
RuntimeKeys(kind) ==
    CASE kind = "device" -> {"Online", "MacAddress", "Uptime", "RestartRequired",
                             "TotalPower", "TotalEnergy", "Temperature"}
      [] kind = "inputs" -> {"State"}
      [] kind = "outputs" -> {"State", "Temperature"}
      [] kind = "meters" -> MeterIncludedKeys

\* `after` has the keys of `before` and its values but for the runtime keys
SameBut(before, after, kind) ==
    /\ DOMAIN after = DOMAIN before
    /\ \A key \in DOMAIN before \ RuntimeKeys(kind) : after[key] = before[key]

\* the list has the components of `before`, those of the device with the
\* given Index changed in runtime keys at most, the others not at all
SameListBut(before, after, index, kind) ==
    /\ Len(after) = Len(before)
    /\ \A k \in 1..Len(before) :
          IF before[k].DeviceIndex = index
          THEN SameBut(before[k], after[k], kind)
          ELSE after[k] = before[k]

(* C26: importing a simulation file changes only allow-listed runtime       *)
(* fields (device Online, MAC address, Uptime, RestartRequired, the totals  *)
(* and the temperature; input State; output State and Temperature; meter    *)
(* Power, Voltage, Current, PowerFactor, Energy) of the one device that is  *)
(* refreshed: whatever the file holds, the other fields of the device and   *)
(* of its components stay, no other device or component changes, and no key *)
(* is added to a record.                                                    *)
C26_ImportChangesAllowListOnly ==
    [][/\ last'.op = "get_device_status"
       /\ devices[last'.dev].Simulate
       => /\ Len(devices') = Len(devices)
          /\ \A p \in 1..Len(devices) :
                IF p = last'.dev THEN SameBut(devices[p], devices'[p], "device")
                ELSE devices'[p] = devices[p]
          /\ SameListBut(inputs, inputs', devices[last'.dev].Index, "inputs")
          /\ SameListBut(outputs, outputs', devices[last'.dev].Index, "outputs")
          /\ SameListBut(meters, meters', devices[last'.dev].Index, "meters")]_vars

\* a refresh from a file that holds the object of another registry, with a
\* "MACAddress" key
C26_Witness ==
    /\ last.op = "get_device_status"
    /\ last.ret = <<TRUE>>
    /\ devices[last.dev].Simulate
    /\ "MACAddress" \in DOMAIN files[devices[last.dev].SimulationFile].dev
    /\ files[devices[last.dev].SimulationFile].dev.ID = 99
    /\ devices[last.dev].ID # 99
    /\ ~devices[last.dev].Online
    /\ devices[last.dev].Uptime = 11
    /\ \E k \in 1..Len(meters) :
          meters[k].DeviceIndex = devices[last.dev].Index /\ meters[k].Power = 5
    /\ \E k \in 1..Len(outputs) :
          outputs[k].DeviceIndex = devices[last.dev].Index /\ outputs[k].State

-----------------------------------------------------------------------------
\* a live REST device whose model has combined metering
CombinedRest(device) ==
    /\ ~device.Simulate
    /\ device.Protocol = "REST"
    /\ ~device.MetersSeperate

(* C27: get_device_status on a live REST device whose model has combined    *)
(* metering always fails: with a RuntimeError whatever the transport        *)
(* returns, the data of a reachable device or the offline result (and with  *)
(* the transport's own exception when the transport raises); and it leaves  *)
(* the device's MacAddress, Uptime, RestartRequired, totals and Temperature *)
(* and every component as they were.                                        *)
C27_CombinedRestAlwaysFails ==
    [][/\ last'.op = "get_device_status"
       /\ CombinedRest(devices[last'.dev])
       => /\ last'.exc # ""
          /\ last'.ret = <<>>
          /\ last'.reqs[1].res \in {"ok", "offline"} =>
                last'.exc = "RuntimeError" /\ last'.why = "rest-combined-meters"
          /\ devices' = [devices EXCEPT ![last'.dev].Online = devices'[last'.dev].Online]
          /\ inputs' = inputs
          /\ outputs' = outputs
          /\ meters' = meters]_vars

\* the offline result of the transport, turned into the RuntimeError
C27_Witness ==
    /\ last.op = "get_device_status"
    /\ CombinedRest(devices[last.dev])
    /\ last.reqs[1].res = "offline"
    /\ last.exc = "RuntimeError"
    /\ ~devices[last.dev].Online

-----------------------------------------------------------------------------
\* the components of the list that belong to other devices than the one with
\* the given Index are as they were
OthersKept(before, after, index) ==
    /\ Len(after) = Len(before)
    /\ \A k \in 1..Len(before) : before[k].DeviceIndex # index => after[k] = before[k]

(* C28: an operation aimed at one device d (is_device_online,               *)
(* get_device_status or change_output, live or simulated) changes no field, *)
(* the Online flag included, of any other device record and no field of any *)
(* component whose DeviceIndex differs from d's Index.                      *)
C28_OtherDevicesUntouched ==
    [][/\ last'.op \in {"is_device_online", "get_device_status", "change_output"}
       /\ last'.dev # 0
       => /\ \A q \in 1..Len(devices) : q # last'.dev => devices'[q] = devices[q]
          /\ OthersKept(inputs, inputs', devices[last'.dev].Index)
          /\ OthersKept(outputs, outputs', devices[last'.dev].Index)
          /\ OthersKept(meters, meters', devices[last'.dev].Index)]_vars

-----------------------------------------------------------------------------
(* C29: two distinct simulated devices of one registry never share a        *)
(* simulation file: the file paths derived from two unique device names     *)
(* differ, so that a change_output on one simulated device never shows as   *)
(* an output State of another simulated device after that device's refresh. *)
C29_SimulationFilesDiffer ==
    Ready =>
        \A p, q \in 1..Len(devices) :
            p # q /\ devices[p].Simulate /\ devices[q].Simulate =>
                /\ devices[p].ClientName # devices[q].ClientName
                /\ devices[p].SimulationFile # devices[q].SimulationFile

-----------------------------------------------------------------------------
(* C30: get_device_status is atomic with respect to failure: when the call  *)
(* raises (a transport failure, a protocol error or an error while the      *)
(* payload is extracted), the device's MacAddress, Uptime, RestartRequired, *)
(* Temperature, TotalPower and TotalEnergy and every field of its inputs,   *)
(* outputs and meters are as they were before the call.                     *)
C30_FailedStatusChangesNothing ==
    [][/\ last'.op = "get_device_status"
       /\ last'.exc # ""
       => /\ devices' = [devices EXCEPT ![last'.dev].Online = devices'[last'.dev].Online]
          /\ inputs' = inputs
          /\ outputs' = outputs
          /\ meters' = meters]_vars

====
